---------------------------- MODULE Spec2Model ----------------------------
(***************************************************************************)
(* A model of the sample-document generators of this repository:           *)
(*                                                                         *)
(*   src/generate_test_pdfs.py                (motor insurance)            *)
(*   src/generate_fire_insurance_pdfs.py      (fire insurance)             *)
(*   src/generate_general_forms_pdfs.py       (general forms)              *)
(*   src/generate_liability_insurance_pdfs.py (liability insurance)        *)
(*                                                                         *)
(* Every create_* function is a renderer: it reads fields of a dict and    *)
(* hands an ordered sequence of text items to reportlab, on a canvas       *)
(* (drawString at absolute coordinates, written by c.save()) or as a story *)
(* of flowables (Paragraph, Spacer, Table, written by doc.build(story)).   *)
(* Every generate_*_docs function is a batch driver: it builds literal     *)
(* sample dicts and calls the renderers one after another.                 *)
(*                                                                         *)
(* Representation.                                                         *)
(*   - A dict is a function from field names to values.  A value is a      *)
(*     string, a natural number (a Python int), a fixed-point number with  *)
(*     four decimals (a Python float: 153.76 is 1537600), or a sequence of *)
(*     strings (a list).                                                   *)
(*   - The body of a renderer is a template: the sequence of the text      *)
(*     items it emits, in the order the code emits them.  An f-string is   *)
(*     the sequence of its literal parts and its replacement fields, each  *)
(*     field with its format specification.  Field reads happen in the     *)
(*     order of the template.                                              *)
(*   - Rendered text is a sequence of pieces, each a string emitted as it  *)
(*     is (s) or a sequence of characters produced by number formatting or *)
(*     a run of underscores (d).                                           *)
(*   - Coordinates are the values the code computes from the page size     *)
(*     (inch = 72 points, letter = 612 x 792 points).                      *)
(*   - Runs of white space inside a literal are written as one blank (the  *)
(*     paragraph parser does the same), and the three non-ASCII characters *)
(*     of the source are written {bullet}, {check} and {deg}.              *)
(*   - Fonts, colours, rectangles and table styles emit no text and are    *)
(*     left out.                                                           *)
(***************************************************************************)
EXTENDS Integers, Sequences, FiniteSets, TLC

\* Longest list tried for an optional list field.
MaxListLen == 2

\* Length of the one long list tried: its lines run past the lower edge of
\* every canvas that has a loop (the 11th line of the license is at y = -10).
LongListLen == 11

\* How many times a script is run over the same output tree.
MaxRuns == 2

VARIABLES
    fn,         \* renderer under call ("" when none)
    data,       \* the dict passed to it
    blank,      \* the is_blank argument passed to it (create_claim_form only)
    result,     \* what the call returned: [ok, key, out]
    dirs,       \* the category directories that exist
    unwritable, \* output paths the process may not write
    files,      \* the output files that exist
    attempts,   \* per output path, the number of render calls issued
    outcome,    \* per output path, how the last render call ended
    pc,         \* per driver, the index of its next render call
    status      \* per driver: "idle", "running", "failed" or "done"

vars == << fn, data, blank, result, dirs, unwritable, files, attempts,
           outcome, pc, status >>

harness_vars == << fn, data, blank, result >>
driver_vars == << dirs, unwritable, files, attempts, outcome, pc, status >>

---------------------------------------------------------------------------
(* Template vocabulary *)

\* A literal part of a string.
L(s) == [t |-> "lit", s |-> s, f |-> "", fmt |-> "", n |-> 0]

\* A replacement field {rec['f']:fmt} (or rec['f'] passed as the text).
F(f, fmt) == [t |-> "fld", s |-> "", f |-> f, fmt |-> fmt, n |-> 0]

\* A literal run of n underscores.
U(n) == [t |-> "us", s |-> "", f |-> "", fmt |-> "", n |-> n]

\* c.drawString(x, y, text)
D(x, y, parts) == [blk |-> "draw", x |-> x, y |-> y, parts |-> parts]

\* story.append(Paragraph(text, style))
P(style, parts) == [blk |-> style, x |-> 0, y |-> 0, parts |-> parts]

\* story.append(Spacer(1, h))
Spacer(h) == [blk |-> "spacer", x |-> 0, y |-> h, parts |-> << >>]

\* story.append(Table(rows)): the table, then its cells row by row.
Table(rows, cols) == [blk |-> "table", x |-> cols, y |-> rows, parts |-> << >>]

\* The cell of row r and column c of the table before it.
Cell(r, c, parts) == [blk |-> "cell", x |-> c, y |-> r, parts |-> parts]

\* c.showPage()
ShowPage == [blk |-> "page", x |-> 0, y |-> 0, parts |-> << >>]

\* for entry in rec.get(f, default): emit one item per entry, each `step`
\* below the one before; `none` is what is emitted instead when the list is
\* empty (or, with no default, absent).
ForEach(f, default, proto, step, none) ==
    [blk |-> "foreach", x |-> proto.x, y |-> proto.y, parts |-> proto.parts,
     f |-> f, default |-> default, style |-> proto.blk, step |-> step,
     none |-> none]

---------------------------------------------------------------------------
(* Python's string conversions *)

Digit(n) == << "0", "1", "2", "3", "4", "5", "6", "7", "8", "9" >>[n + 1]

DigitChars == { Digit(n) : n \in 0..9 }

\* str(n) of an int n >= 0.
RECURSIVE Str(_)
Str(n) == IF n < 10 THEN << Digit(n) >> ELSE Append(Str(n \div 10), Digit(n % 10))

\* n written with exactly w digits (n < 10^w).
RECURSIVE ZeroPad(_, _)
ZeroPad(n, w) == IF w = 0 THEN << >> ELSE Append(ZeroPad(n \div 10, w - 1), Digit(n % 10))

RECURSIVE Pow10(_)
Pow10(k) == IF k = 0 THEN 1 ELSE 10 * Pow10(k - 1)

\* format(n, ",") of an int n >= 0: groups of three digits, from the right.
FormatComma_plain(n) == Str(n)

RECURSIVE FormatComma(_)
FormatComma(n) ==
    IF n < 1000 THEN Str(n)
    ELSE FormatComma(n \div 1000) \o << "," >> \o ZeroPad(n % 1000, 3)

\* format(x, ".<places>f") of a float x >= 0 given with four decimals
\* (v = x * 10^4): rounded to `places` decimals, an exact tie to even, then
\* the integer part, a point and exactly `places` digits.
FormatFixed(v, places) ==
    LET scale == Pow10(4 - places)
        q == v \div scale
        r == v % scale
        rounded == IF 2 * r > scale \/ (2 * r = scale /\ q % 2 = 1) THEN q + 1 ELSE q
    IN  Str(rounded \div Pow10(places)) \o << "." >> \o ZeroPad(rounded % Pow10(places), places)

\* int(n * w) for the weights 0.6, 0.25 and 0.15 of create_property_valuation,
\* w given in hundredths.
Weighted(n, w) == (n * w) \div 100

\* str.lower() on the rating vocabulary of create_risk_assessment.
Lower(s) ==
    CASE s = "LOW" -> "low"
      [] s = "MODERATE" -> "moderate"
      [] s = "HIGH" -> "high"
      [] OTHER -> s

---------------------------------------------------------------------------
(* Rendering a template against a dict *)

Txt(s) == [s |-> s, d |-> << >>]
Chars(d) == [s |-> "", d |-> d]

\* The text a replacement field contributes.
Format(v, fmt) ==
    CASE fmt = "s" -> Txt(v)
      [] fmt = "d" -> Chars(Str(v))
      [] fmt = "comma" -> Chars(FormatComma(v))
      [] fmt = "f2" -> Chars(FormatFixed(v, 2))
      [] fmt = "f4" -> Chars(FormatFixed(v, 4))
      [] fmt = "w60" -> Chars(FormatComma(Weighted(v, 60)))
      [] fmt = "w25" -> Chars(FormatComma(Weighted(v, 25)))
      [] fmt = "w15" -> Chars(FormatComma(Weighted(v, 15)))
      [] fmt = "lower" -> Txt(Lower(v))

\* A part of a string that is not an f-string: the replacement field stays
\* text.
RenderPart_not_fstring(p, rec) ==
    CASE p.t = "lit" -> Txt(p.s)
      [] p.t = "us" -> Chars([i \in 1..p.n |-> "_"])
      [] p.t = "fld" -> Txt(p.f)

RenderPart(p, rec) ==
    CASE p.t = "lit" -> Txt(p.s)
      [] p.t = "us" -> Chars([i \in 1..p.n |-> "_"])
      [] p.t = "fld" -> Format(rec[p.f], p.fmt)

RenderParts(parts, rec) == [j \in 1..Len(parts) |-> RenderPart(parts[j], rec)]

Emitted(blk, x, y, text) == [blk |-> blk, x |-> x, y |-> y, text |-> text]

\* rec.get(f, default)
Get(rec, f, default) == IF f \in DOMAIN rec THEN rec[f] ELSE default

\* The items one template item emits, were an item whose field is the empty
\* string left out.
Expand_skipping_empty(item, rec) ==
    IF item.blk = "foreach"
    THEN LET entries == Get(rec, item.f, item.default)
         IN  IF entries = << >>
             THEN [i \in 1..Len(item.none) |->
                     Emitted(item.none[i].blk, item.none[i].x, item.none[i].y,
                             RenderParts(item.none[i].parts, rec))]
             ELSE [i \in 1..Len(entries) |->
                     Emitted(item.style, item.x, item.y - item.step * (i - 1),
                             RenderParts(item.parts, rec) \o << Txt(entries[i]) >>)]
    ELSE IF \E j \in 1..Len(item.parts) : RenderPart(item.parts[j], rec) = Txt("")
         THEN << >>
         ELSE << Emitted(item.blk, item.x, item.y, RenderParts(item.parts, rec)) >>

\* The items one template item emits, were a line below the lower edge of the
\* canvas to start a new page.
Expand_paginating(item, rec) ==
    IF item.blk = "foreach"
    THEN LET entries == Get(rec, item.f, item.default)
         IN  IF entries = << >>
             THEN [i \in 1..Len(item.none) |->
                     Emitted(item.none[i].blk, item.none[i].x, item.none[i].y,
                             RenderParts(item.none[i].parts, rec))]
             ELSE [i \in 1..Len(entries) |->
                     Emitted(IF item.y - item.step * (i - 1) < 0 THEN "page" ELSE item.style,
                             item.x, item.y - item.step * (i - 1),
                             RenderParts(item.parts, rec) \o << Txt(entries[i]) >>)]
    ELSE << Emitted(item.blk, item.x, item.y, RenderParts(item.parts, rec)) >>

\* The items one template item emits.
Expand(item, rec) ==
    IF item.blk = "foreach"
    THEN LET entries == Get(rec, item.f, item.default)
         IN  IF entries = << >>
             THEN [i \in 1..Len(item.none) |->
                     Emitted(item.none[i].blk, item.none[i].x, item.none[i].y,
                             RenderParts(item.none[i].parts, rec))]
             ELSE [i \in 1..Len(entries) |->
                     Emitted(item.style, item.x, item.y - item.step * (i - 1),
                             RenderParts(item.parts, rec) \o << Txt(entries[i]) >>)]
    ELSE << Emitted(item.blk, item.x, item.y, RenderParts(item.parts, rec)) >>

\* The items the template items lo..hi emit, in order.
RECURSIVE ExpandRange(_, _, _, _)
ExpandRange(template, rec, lo, hi) ==
    IF lo > hi THEN << >>
    ELSE IF lo = hi THEN Expand(template[lo], rec)
    ELSE LET mid == (lo + hi) \div 2
         IN  ExpandRange(template, rec, lo, mid) \o ExpandRange(template, rec, mid + 1, hi)

\* The same with the last item of the body left out.
ExpandAll_without_last(template, rec) == ExpandRange(template, rec, 1, Len(template) - 1)

ExpandAll(template, rec) == ExpandRange(template, rec, 1, Len(template))

\* Whether part p is a subscript rec['f'] that fails on rec.
Missing(p, rec) == p.t = "fld" /\ p.f \notin DOMAIN rec

\* The first field, in the order of the reads, that rec[f] fails on ("" when
\* none does).
FirstMissing(template, rec) ==
    LET bad == { i \in 1..Len(template) :
                   \E j \in 1..Len(template[i].parts) : Missing(template[i].parts[j], rec) }
    IN  IF bad = {} THEN ""
        ELSE LET i == CHOOSE i \in bad : \A k \in bad : i <= k
                 parts == template[i].parts
                 j == CHOOSE j \in 1..Len(parts) :
                          /\ Missing(parts[j], rec)
                          /\ \A k \in 1..(j - 1) : ~Missing(parts[k], rec)
             IN  parts[j].f

\* raise KeyError(k): the call ends without a document.
KeyError_swallowed(k) == [ok |-> TRUE, key |-> "", out |-> << >>]

KeyError(k) == [ok |-> FALSE, key |-> k, out |-> << >>]

\* The call of a renderer whose body is `template`, up to the point where
\* the document is handed to c.save() or doc.build().
Render(template, rec) ==
    LET k == FirstMissing(template, rec)
    IN  IF k # "" THEN KeyError(k)
        ELSE [ok |-> TRUE, key |-> "", out |-> ExpandAll(template, rec)]

---------------------------------------------------------------------------
(* The renderers *)

\* -------- src/generate_test_pdfs.py --------

\* generate_test_pdfs.py, lines 17-80: the text items of the body, in order.
create_vehicle_registration_template ==
    << D(50, 742, <<L("DEPARTMENT OF MOTOR VEHICLES")>>),
       D(50, 712, <<L("CERTIFICATE OF REGISTRATION")>>),
       D(412, 742, <<L("Document No: "), F("doc_number", "s")>>),
       D(412, 722, <<L("Issue Date: "), F("issue_date", "s")>>),
       D(50, 642, <<L("VEHICLE INFORMATION")>>),
       D(50, 612, <<L("Registration Number:")>>),
       D(200, 612, <<F("reg_number", "s")>>),
       D(50, 587, <<L("Vehicle Make:")>>),
       D(200, 587, <<F("make", "s")>>),
       D(50, 562, <<L("Vehicle Model:")>>),
       D(200, 562, <<F("model", "s")>>),
       D(50, 537, <<L("Year of Manufacture:")>>),
       D(200, 537, <<F("year", "s")>>),
       D(50, 512, <<L("Engine Number:")>>),
       D(200, 512, <<F("engine_number", "s")>>),
       D(50, 487, <<L("Chassis Number:")>>),
       D(200, 487, <<F("chassis_number", "s")>>),
       D(50, 462, <<L("Color:")>>),
       D(200, 462, <<F("color", "s")>>),
       D(50, 437, <<L("Fuel Type:")>>),
       D(200, 437, <<F("fuel_type", "s")>>),
       D(50, 392, <<L("OWNER INFORMATION")>>),
       D(50, 362, <<L("Full Name:")>>),
       D(200, 362, <<F("owner_name", "s")>>),
       D(50, 337, <<L("Address:")>>),
       D(200, 337, <<F("owner_address", "s")>>),
       D(50, 312, <<L("ID Number:")>>),
       D(200, 312, <<F("owner_id", "s")>>),
       D(50, 287, <<L("Phone:")>>),
       D(200, 287, <<F("owner_phone", "s")>>),
       D(50, 50, <<L("This is a sample document for testing purposes only")>>),
       D(50, 35, <<L("All information contained herein is fictional")>>) >>

create_vehicle_registration(vehicle_data) == Render(create_vehicle_registration_template, vehicle_data)

\* generate_test_pdfs.py, lines 82-131: the text items of the body, in order.
create_drivers_license_template ==
    << D(10, 160, <<L("DRIVER LICENSE")>>),
       D(10, 140, <<L("License No: "), F("license_number", "s")>>),
       D(10, 125, <<L("Class: "), F("license_class", "s")>>),
       D(10, 110, <<L("Expires: "), F("expiry_date", "s")>>),
       D(10, 85, <<L("Name: "), F("full_name", "s")>>),
       D(10, 70, <<L("DOB: "), F("date_of_birth", "s")>>),
       D(10, 55, <<L("Address: "), F("address", "s")>>),
       D(213, 110, <<L("PHOTO")>>),
       ShowPage,
       D(10, 160, <<L("RESTRICTIONS & ENDORSEMENTS")>>),
       ForEach("restrictions", << "NONE" >>,
            D(10, 140, <<L("{bullet} ")>>), 15,
            << >>),
       D(10, 20, <<L("This is a sample document for testing purposes only")>>) >>

create_drivers_license(driver_data) == Render(create_drivers_license_template, driver_data)

\* generate_test_pdfs.py, lines 133-225: the text items of the body, in order.
create_vehicle_inspection_report_template ==
    << P("Title", <<L("VEHICLE INSPECTION REPORT")>>),
       Spacer(12),
       Table(5, 2),
       Cell(1, 1, <<L("Inspection Date:")>>),
       Cell(1, 2, <<F("inspection_date", "s")>>),
       Cell(2, 1, <<L("Inspector:")>>),
       Cell(2, 2, <<F("inspector_name", "s")>>),
       Cell(3, 1, <<L("License No:")>>),
       Cell(3, 2, <<F("inspector_license", "s")>>),
       Cell(4, 1, <<L("Station:")>>),
       Cell(4, 2, <<F("station_name", "s")>>),
       Cell(5, 1, <<L("Certificate No:")>>),
       Cell(5, 2, <<F("certificate_number", "s")>>),
       Spacer(20),
       P("Heading2", <<L("VEHICLE DETAILS")>>),
       Table(5, 2),
       Cell(1, 1, <<L("Registration No:")>>),
       Cell(1, 2, <<F("reg_number", "s")>>),
       Cell(2, 1, <<L("Make/Model:")>>),
       Cell(2, 2, <<F("make", "s"), L(" "), F("model", "s")>>),
       Cell(3, 1, <<L("Year:")>>),
       Cell(3, 2, <<F("year", "s")>>),
       Cell(4, 1, <<L("Mileage:")>>),
       Cell(4, 2, <<F("mileage", "s")>>),
       Cell(5, 1, <<L("VIN:")>>),
       Cell(5, 2, <<F("vin", "s")>>),
       Spacer(20),
       P("Heading2", <<L("INSPECTION RESULTS")>>),
       Table(10, 3),
       Cell(1, 1, <<L("Component")>>),
       Cell(1, 2, <<L("Status")>>),
       Cell(1, 3, <<L("Notes")>>),
       Cell(2, 1, <<L("Brakes")>>),
       Cell(2, 2, <<L("PASS")>>),
       Cell(2, 3, <<L("Good condition")>>),
       Cell(3, 1, <<L("Lights")>>),
       Cell(3, 2, <<L("PASS")>>),
       Cell(3, 3, <<L("All functional")>>),
       Cell(4, 1, <<L("Tires")>>),
       Cell(4, 2, <<L("PASS")>>),
       Cell(4, 3, <<L("7/32\" tread depth")>>),
       Cell(5, 1, <<L("Steering")>>),
       Cell(5, 2, <<L("PASS")>>),
       Cell(5, 3, <<L("No play detected")>>),
       Cell(6, 1, <<L("Exhaust")>>),
       Cell(6, 2, <<L("PASS")>>),
       Cell(6, 3, <<L("Secure mounting")>>),
       Cell(7, 1, <<L("Mirrors")>>),
       Cell(7, 2, <<L("PASS")>>),
       Cell(7, 3, <<L("Clean and secure")>>),
       Cell(8, 1, <<L("Windshield")>>),
       Cell(8, 2, <<L("PASS")>>),
       Cell(8, 3, <<L("No cracks")>>),
       Cell(9, 1, <<L("Horn")>>),
       Cell(9, 2, <<L("PASS")>>),
       Cell(9, 3, <<L("Audible")>>),
       Cell(10, 1, <<L("Seat Belts")>>),
       Cell(10, 2, <<L("PASS")>>),
       Cell(10, 3, <<L("Functional")>>),
       Spacer(20),
       P("Normal", <<L("<b>OVERALL RESULT: "), F("result", "s"), L("</b>")>>),
       Spacer(30),
       P("Footer", <<
               L("This is a sample document for testing purposes only. All information is fictional.") >>) >>

create_vehicle_inspection_report(inspection_data) == Render(create_vehicle_inspection_report_template, inspection_data)

\* generate_test_pdfs.py, lines 227-334: the text items of the body, in order.
create_insurance_policy_template ==
    << P("Title", <<L("MOTOR VEHICLE INSURANCE POLICY")>>),
       Spacer(12),
       Table(5, 2),
       Cell(1, 1, <<L("Policy Number:")>>),
       Cell(1, 2, <<F("policy_number", "s")>>),
       Cell(2, 1, <<L("Policy Period:")>>),
       Cell(2, 2, <<F("start_date", "s"), L(" to "), F("end_date", "s")>>),
       Cell(3, 1, <<L("Insurance Company:")>>),
       Cell(3, 2, <<F("company_name", "s")>>),
       Cell(4, 1, <<L("Agent:")>>),
       Cell(4, 2, <<F("agent_name", "s")>>),
       Cell(5, 1, <<L("Issue Date:")>>),
       Cell(5, 2, <<F("issue_date", "s")>>),
       Spacer(20),
       P("Heading2", <<L("INSURED INFORMATION")>>),
       Table(5, 2),
       Cell(1, 1, <<L("Name:")>>),
       Cell(1, 2, <<F("insured_name", "s")>>),
       Cell(2, 1, <<L("Address:")>>),
       Cell(2, 2, <<F("insured_address", "s")>>),
       Cell(3, 1, <<L("Phone:")>>),
       Cell(3, 2, <<F("insured_phone", "s")>>),
       Cell(4, 1, <<L("Email:")>>),
       Cell(4, 2, <<F("insured_email", "s")>>),
       Cell(5, 1, <<L("License Number:")>>),
       Cell(5, 2, <<F("license_number", "s")>>),
       Spacer(20),
       P("Heading2", <<L("COVERED VEHICLE")>>),
       Table(4, 2),
       Cell(1, 1, <<L("Year/Make/Model:")>>),
       Cell(1, 2, <<
               F("vehicle_year", "s"), L(" "), F("vehicle_make", "s"), L(" "),
               F("vehicle_model", "s") >>),
       Cell(2, 1, <<L("VIN:")>>),
       Cell(2, 2, <<F("vehicle_vin", "s")>>),
       Cell(3, 1, <<L("License Plate:")>>),
       Cell(3, 2, <<F("license_plate", "s")>>),
       Cell(4, 1, <<L("Use:")>>),
       Cell(4, 2, <<F("vehicle_use", "s")>>),
       Spacer(20),
       P("Heading2", <<L("COVERAGE DETAILS")>>),
       Table(7, 4),
       Cell(1, 1, <<L("Coverage Type")>>),
       Cell(1, 2, <<L("Limit")>>),
       Cell(1, 3, <<L("Deductible")>>),
       Cell(1, 4, <<L("Premium")>>),
       Cell(2, 1, <<L("Liability - Bodily Injury")>>),
       Cell(2, 2, <<L("$100,000/$300,000")>>),
       Cell(2, 3, <<L("N/A")>>),
       Cell(2, 4, <<L("$450.00")>>),
       Cell(3, 1, <<L("Liability - Property Damage")>>),
       Cell(3, 2, <<L("$50,000")>>),
       Cell(3, 3, <<L("N/A")>>),
       Cell(3, 4, <<L("$200.00")>>),
       Cell(4, 1, <<L("Comprehensive")>>),
       Cell(4, 2, <<L("ACV")>>),
       Cell(4, 3, <<L("$500")>>),
       Cell(4, 4, <<L("$180.00")>>),
       Cell(5, 1, <<L("Collision")>>),
       Cell(5, 2, <<L("ACV")>>),
       Cell(5, 3, <<L("$500")>>),
       Cell(5, 4, <<L("$220.00")>>),
       Cell(6, 1, <<L("Uninsured Motorist")>>),
       Cell(6, 2, <<L("$100,000/$300,000")>>),
       Cell(6, 3, <<L("N/A")>>),
       Cell(6, 4, <<L("$75.00")>>),
       Cell(7, 1, <<>>),
       Cell(7, 2, <<>>),
       Cell(7, 3, <<L("Total Annual Premium:")>>),
       Cell(7, 4, <<L("$1,125.00")>>),
       Spacer(30),
       P("Footer", <<
               L("This is a sample document for testing purposes only. All information is fictional.") >>) >>

create_insurance_policy(policy_data) == Render(create_insurance_policy_template, policy_data)

\* generate_test_pdfs.py, lines 336-455: the body, for either value of is_blank.
create_claim_form_template(is_blank) ==
    << P("Title", <<L("MOTOR INSURANCE CLAIM FORM")>>),
       Spacer(12) >>
    \o
    (IF ~is_blank THEN
        << P("Normal", <<L("Claim Number: "), F("claim_number", "s")>>),
           P("Normal", <<L("Date of Report: "), F("report_date", "s")>>) >>
     ELSE
        << P("Normal", <<L("Claim Number: "), U(24)>>),
           P("Normal", <<L("Date of Report: "), U(24)>>) >>)
    \o
    << Spacer(20),
       P("Heading2", <<L("SECTION 1: POLICY INFORMATION")>>) >>
    \o
    (IF ~is_blank THEN
        << P("Normal", <<L("Policy Number: "), F("policy_number", "s")>>),
           P("Normal", <<L("Insured Name: "), F("insured_name", "s")>>),
           P("Normal", <<L("Phone Number: "), F("phone", "s")>>),
           P("Normal", <<L("Email: "), F("email", "s")>>) >>
     ELSE
        << P("Normal", <<L("Policy Number: "), U(48)>>),
           P("Normal", <<L("Insured Name: "), U(48)>>),
           P("Normal", <<L("Phone Number: "), U(48)>>),
           P("Normal", <<L("Email: "), U(48)>>) >>)
    \o
    << Spacer(20),
       P("Heading2", <<L("SECTION 2: INCIDENT DETAILS")>>) >>
    \o
    (IF ~is_blank THEN
        << P("Normal", <<L("Date of Loss: "), F("loss_date", "s")>>),
           P("Normal", <<L("Time of Loss: "), F("loss_time", "s")>>),
           P("Normal", <<L("Location: "), F("location", "s")>>),
           P("Normal", <<L("Description: "), F("description", "s")>>) >>
     ELSE
        << P("Normal", <<L("Date of Loss: "), U(48)>>),
           P("Normal", <<L("Time of Loss: "), U(48)>>),
           P("Normal", <<L("Location: "), U(48)>>),
           P("Normal", <<L("Description of Incident:")>>),
           P("Normal", <<U(64)>>),
           P("Normal", <<U(64)>>),
           P("Normal", <<U(64)>>) >>)
    \o
    << Spacer(20),
       P("Heading2", <<L("SECTION 3: VEHICLE INFORMATION")>>) >>
    \o
    (IF ~is_blank THEN
        << P("Normal", <<L("Year/Make/Model: "), F("vehicle", "s")>>),
           P("Normal", <<L("License Plate: "), F("license_plate", "s")>>),
           P("Normal", <<L("VIN: "), F("vin", "s")>>),
           P("Normal", <<L("Estimated Damage: "), L("$"), F("estimated_damage", "s")>>) >>
     ELSE
        << P("Normal", <<L("Year/Make/Model: "), U(48)>>),
           P("Normal", <<L("License Plate: "), U(48)>>),
           P("Normal", <<L("VIN: "), U(48)>>),
           P("Normal", <<L("Estimated Damage: "), L("$"), U(48)>>) >>)
    \o
    << Spacer(30),
       P("Heading2", <<L("CERTIFICATION")>>),
       P("Normal", <<
               L("I certify that the information provided above is true and accurate to the best of my knowledge.") >>),
       Spacer(20) >>
    \o
    (IF ~is_blank THEN
        << P("Normal", <<L("Signature: "), F("signature", "s")>>),
           P("Normal", <<L("Date: "), F("signature_date", "s")>>) >>
     ELSE
        << P("Normal", <<L("Signature: "), U(48)>>),
           P("Normal", <<L("Date: "), U(48)>>) >>)
    \o
    << Spacer(30),
       P("Footer", <<
               L("This is a sample document for testing purposes only. All information is fictional.") >>) >>

\* The same call with the is_blank argument ignored.
create_claim_form_ignoring_is_blank(claim_data, is_blank) ==
    Render(create_claim_form_template(FALSE), claim_data)

\* The same call with the signature part always taken from the filled mode:
\* the last four items of the body are the two signature lines, a spacer and
\* the footer in both modes.
create_claim_form_signature_filled(claim_data, is_blank) ==
    LET t == create_claim_form_template(is_blank)
        filled == create_claim_form_template(FALSE)
    IN  Render(SubSeq(t, 1, Len(t) - 4) \o SubSeq(filled, Len(filled) - 3, Len(filled)),
               claim_data)

\* The same call with the blank mode laid out as the filled one, each value
\* replaced by a run of underscores.
create_claim_form_one_layout(claim_data, is_blank) ==
    LET filled == create_claim_form_template(FALSE)
        blanked(parts) == [j \in 1..Len(parts) |->
                              IF parts[j].t = "fld" THEN U(48) ELSE parts[j]]
    IN  IF is_blank
        THEN Render([i \in 1..Len(filled) |->
                        [filled[i] EXCEPT !.parts = blanked(filled[i].parts)]], claim_data)
        ELSE Render(filled, claim_data)

create_claim_form(claim_data, is_blank) == Render(create_claim_form_template(is_blank), claim_data)

\* -------- src/generate_fire_insurance_pdfs.py --------

\* generate_fire_insurance_pdfs.py, lines 16-98: the text items of the body, in order.
create_property_deed_template ==
    << P("Title", <<L("PROPERTY DEED")>>),
       Spacer(12),
       P("Normal", <<
               L("Deed Number: "), F("deed_number", "s"), L("<br/>Recording Date: "),
               F("recording_date", "s"), L("<br/>County: "), F("county", "s") >>),
       Spacer(20),
       P("Heading2", <<L("LEGAL DESCRIPTION")>>),
       P("Normal", <<
               L("Property legally described as: "), F("legal_description", "s"),
               L(" Street Address: "), F("street_address", "s"), L(" City: "), F("city", "s"),
               L(", State: "), F("state", "s"), L(", ZIP: "), F("zip_code", "s"),
               L(" Parcel ID: "), F("parcel_id", "s"), L(" Lot Size: "), F("lot_size", "d"),
               L(" square feet") >>),
       Spacer(20),
       P("Heading2", <<L("OWNERSHIP INFORMATION")>>),
       Table(5, 2),
       Cell(1, 1, <<L("Current Owner(s):")>>),
       Cell(1, 2, <<F("current_owner", "s")>>),
       Cell(2, 1, <<L("Previous Owner:")>>),
       Cell(2, 2, <<F("previous_owner", "s")>>),
       Cell(3, 1, <<L("Date of Transfer:")>>),
       Cell(3, 2, <<F("transfer_date", "s")>>),
       Cell(4, 1, <<L("Purchase Price:")>>),
       Cell(4, 2, <<L("$"), F("purchase_price", "comma")>>),
       Cell(5, 1, <<L("Property Type:")>>),
       Cell(5, 2, <<F("property_type", "s")>>),
       Spacer(20),
       P("Heading2", <<L("ENCUMBRANCES AND LIENS")>>),
       ForEach("encumbrances", << >>,
            P("Normal", <<L("{bullet} ")>>), 0,
            << P("Normal", << L("None recorded as of the date of this deed.") >>) >>),
       Spacer(30),
       P("Normal", <<
               L("This deed has been recorded in the official records of the County Recorder's Office. This document certifies the legal ownership of the above-described property.") >>),
       Spacer(30),
       P("Footer", <<
               L("This is a sample document for testing purposes only. All information is fictional.") >>) >>

create_property_deed(property_data) == Render(create_property_deed_template, property_data)

\* generate_fire_insurance_pdfs.py, lines 100-195: the text items of the body, in order.
create_building_permit_template ==
    << D(50, 742, <<L("CITY BUILDING DEPARTMENT")>>),
       D(50, 712, <<L("BUILDING PERMIT")>>),
       D(362, 742, <<L("Permit No: "), F("permit_number", "s")>>),
       D(362, 722, <<L("Issue Date: "), F("issue_date", "s")>>),
       D(362, 702, <<L("Expiration: "), F("expiration_date", "s")>>),
       D(50, 652, <<L("PROPERTY INFORMATION")>>),
       D(50, 622, <<L("Property Address:")>>),
       D(200, 622, <<F("property_address", "s")>>),
       D(50, 597, <<L("Parcel Number:")>>),
       D(200, 597, <<F("parcel_number", "s")>>),
       D(50, 572, <<L("Zoning:")>>),
       D(200, 572, <<F("zoning", "s")>>),
       D(50, 547, <<L("Property Owner:")>>),
       D(200, 547, <<F("property_owner", "s")>>),
       D(50, 522, <<L("Owner Phone:")>>),
       D(200, 522, <<F("owner_phone", "s")>>),
       D(50, 477, <<L("PERMIT DETAILS")>>),
       D(50, 447, <<L("Work Description:")>>),
       D(200, 447, <<F("work_description", "s")>>),
       D(50, 422, <<L("Construction Type:")>>),
       D(200, 422, <<F("construction_type", "s")>>),
       D(50, 397, <<L("Estimated Cost:")>>),
       D(200, 397, <<L("$"), F("estimated_cost", "comma")>>),
       D(50, 372, <<L("Square Footage:")>>),
       D(200, 372, <<F("square_footage", "d"), L(" sq ft")>>),
       D(50, 347, <<L("Number of Stories:")>>),
       D(200, 347, <<F("stories", "s")>>),
       D(50, 302, <<L("CONTRACTOR INFORMATION")>>),
       D(50, 272, <<L("Contractor Name:")>>),
       D(200, 272, <<F("contractor_name", "s")>>),
       D(50, 247, <<L("License Number:")>>),
       D(200, 247, <<F("contractor_license", "s")>>),
       D(50, 222, <<L("Phone:")>>),
       D(200, 222, <<F("contractor_phone", "s")>>),
       D(50, 197, <<L("Address:")>>),
       D(200, 197, <<F("contractor_address", "s")>>),
       D(50, 142, <<L("APPROVALS REQUIRED")>>),
       ForEach("approvals", << >>,
            D(70, 117, <<L("{check} ")>>), 20,
            << >>),
       D(50, 80, <<
               L("This permit becomes void if work is not commenced within 180 days of issuance.") >>),
       D(50, 65, <<
               L("All work must be performed in accordance with approved plans and specifications.") >>),
       D(50, 50, <<L("This is a sample document for testing purposes only")>>),
       D(50, 35, <<L("All information contained herein is fictional")>>) >>

create_building_permit(permit_data) == Render(create_building_permit_template, permit_data)

\* generate_fire_insurance_pdfs.py, lines 197-313: the text items of the body, in order.
create_fire_safety_certificate_template ==
    << P("Title", <<L("FIRE SAFETY CERTIFICATE")>>),
       Spacer(12),
       Table(5, 2),
       Cell(1, 1, <<L("Certificate Number:")>>),
       Cell(1, 2, <<F("certificate_number", "s")>>),
       Cell(2, 1, <<L("Issue Date:")>>),
       Cell(2, 2, <<F("issue_date", "s")>>),
       Cell(3, 1, <<L("Expiration Date:")>>),
       Cell(3, 2, <<F("expiration_date", "s")>>),
       Cell(4, 1, <<L("Issuing Authority:")>>),
       Cell(4, 2, <<F("issuing_authority", "s")>>),
       Cell(5, 1, <<L("Inspector:")>>),
       Cell(5, 2, <<F("inspector_name", "s")>>),
       Spacer(20),
       P("Heading2", <<L("PROPERTY INFORMATION")>>),
       Table(5, 2),
       Cell(1, 1, <<L("Property Address:")>>),
       Cell(1, 2, <<F("property_address", "s")>>),
       Cell(2, 1, <<L("Building Type:")>>),
       Cell(2, 2, <<F("building_type", "s")>>),
       Cell(3, 1, <<L("Occupancy Type:")>>),
       Cell(3, 2, <<F("occupancy_type", "s")>>),
       Cell(4, 1, <<L("Total Floor Area:")>>),
       Cell(4, 2, <<F("floor_area", "d"), L(" sq ft")>>),
       Cell(5, 1, <<L("Number of Floors:")>>),
       Cell(5, 2, <<F("number_of_floors", "s")>>),
       Spacer(20),
       P("Heading2", <<L("FIRE SAFETY SYSTEMS INSPECTION")>>),
       Table(7, 4),
       Cell(1, 1, <<L("System/Component")>>),
       Cell(1, 2, <<L("Status")>>),
       Cell(1, 3, <<L("Last Tested")>>),
       Cell(1, 4, <<L("Notes")>>),
       Cell(2, 1, <<L("Fire Alarm System")>>),
       Cell(2, 2, <<L("PASS")>>),
       Cell(2, 3, <<F("alarm_test_date", "s")>>),
       Cell(2, 4, <<L("All zones operational")>>),
       Cell(3, 1, <<L("Sprinkler System")>>),
       Cell(3, 2, <<L("PASS")>>),
       Cell(3, 3, <<F("sprinkler_test_date", "s")>>),
       Cell(3, 4, <<L("Adequate pressure")>>),
       Cell(4, 1, <<L("Emergency Exits")>>),
       Cell(4, 2, <<L("PASS")>>),
       Cell(4, 3, <<F("exit_test_date", "s")>>),
       Cell(4, 4, <<L("Clear and marked")>>),
       Cell(5, 1, <<L("Fire Extinguishers")>>),
       Cell(5, 2, <<L("PASS")>>),
       Cell(5, 3, <<F("extinguisher_test_date", "s")>>),
       Cell(5, 4, <<L("Properly charged")>>),
       Cell(6, 1, <<L("Emergency Lighting")>>),
       Cell(6, 2, <<L("PASS")>>),
       Cell(6, 3, <<F("lighting_test_date", "s")>>),
       Cell(6, 4, <<L("Battery backup OK")>>),
       Cell(7, 1, <<L("Fire Doors")>>),
       Cell(7, 2, <<L("PASS")>>),
       Cell(7, 3, <<F("door_test_date", "s")>>),
       Cell(7, 4, <<L("Self-closing mechanism OK")>>),
       Spacer(20),
       P("Heading2", <<L("CERTIFICATION")>>),
       P("Normal", <<
               L("This certifies that the above-described property has been inspected and found to be in compliance with applicable fire safety codes and regulations as of "),
               F("inspection_date", "s"), L(". This certificate is valid until "),
               F("expiration_date", "s"), L(" unless revoked or suspended.") >>),
       Spacer(20),
       Table(3, 2),
       Cell(1, 1, <<L("Fire Marshal Signature:")>>),
       Cell(1, 2, <<F("marshal_signature", "s")>>),
       Cell(2, 1, <<L("Date Signed:")>>),
       Cell(2, 2, <<F("signature_date", "s")>>),
       Cell(3, 1, <<L("Badge Number:")>>),
       Cell(3, 2, <<F("badge_number", "s")>>),
       Spacer(30),
       P("Footer", <<
               L("This is a sample document for testing purposes only. All information is fictional.") >>) >>

create_fire_safety_certificate(safety_data) == Render(create_fire_safety_certificate_template, safety_data)

\* The same rows with the last cell taken from a component of the total.
approaches_data_total_from_component ==
    << Cell(1, 1, <<L("Approach")>>),
       Cell(1, 2, <<L("Value Estimate")>>),
       Cell(1, 3, <<L("Weight")>>),
       Cell(1, 4, <<L("Weighted Value")>>),
       Cell(2, 1, <<L("Sales Comparison")>>),
       Cell(2, 2, <<L("$"), F("sales_comparison", "comma")>>),
       Cell(2, 3, <<L("60%")>>),
       Cell(2, 4, <<L("$"), F("sales_comparison", "w60")>>),
       Cell(3, 1, <<L("Cost Approach")>>),
       Cell(3, 2, <<L("$"), F("cost_approach", "comma")>>),
       Cell(3, 3, <<L("25%")>>),
       Cell(3, 4, <<L("$"), F("cost_approach", "w25")>>),
       Cell(4, 1, <<L("Income Approach")>>),
       Cell(4, 2, <<L("$"), F("income_approach", "comma")>>),
       Cell(4, 3, <<L("15%")>>),
       Cell(4, 4, <<L("$"), F("income_approach", "w15")>>),
       Cell(5, 1, <<>>),
       Cell(5, 2, <<>>),
       Cell(5, 3, <<L("Final Value:")>>),
       Cell(5, 4, <<L("$"), F("sales_comparison", "comma")>>) >>

\* generate_fire_insurance_pdfs.py, lines 375-381: the rows of the table approaches_data.
approaches_data ==
    << Cell(1, 1, <<L("Approach")>>),
       Cell(1, 2, <<L("Value Estimate")>>),
       Cell(1, 3, <<L("Weight")>>),
       Cell(1, 4, <<L("Weighted Value")>>),
       Cell(2, 1, <<L("Sales Comparison")>>),
       Cell(2, 2, <<L("$"), F("sales_comparison", "comma")>>),
       Cell(2, 3, <<L("60%")>>),
       Cell(2, 4, <<L("$"), F("sales_comparison", "w60")>>),
       Cell(3, 1, <<L("Cost Approach")>>),
       Cell(3, 2, <<L("$"), F("cost_approach", "comma")>>),
       Cell(3, 3, <<L("25%")>>),
       Cell(3, 4, <<L("$"), F("cost_approach", "w25")>>),
       Cell(4, 1, <<L("Income Approach")>>),
       Cell(4, 2, <<L("$"), F("income_approach", "comma")>>),
       Cell(4, 3, <<L("15%")>>),
       Cell(4, 4, <<L("$"), F("income_approach", "w15")>>),
       Cell(5, 1, <<>>),
       Cell(5, 2, <<>>),
       Cell(5, 3, <<L("Final Value:")>>),
       Cell(5, 4, <<L("$"), F("final_value", "comma")>>) >>

\* generate_fire_insurance_pdfs.py, lines 315-442: the text items of the body, in order.
create_property_valuation_template ==
    << P("Title", <<L("PROPERTY VALUATION REPORT")>>),
       Spacer(12),
       Table(6, 2),
       Cell(1, 1, <<L("Report Number:")>>),
       Cell(1, 2, <<F("report_number", "s")>>),
       Cell(2, 1, <<L("Valuation Date:")>>),
       Cell(2, 2, <<F("valuation_date", "s")>>),
       Cell(3, 1, <<L("Report Date:")>>),
       Cell(3, 2, <<F("report_date", "s")>>),
       Cell(4, 1, <<L("Appraiser:")>>),
       Cell(4, 2, <<F("appraiser_name", "s")>>),
       Cell(5, 1, <<L("License Number:")>>),
       Cell(5, 2, <<F("appraiser_license", "s")>>),
       Cell(6, 1, <<L("Purpose:")>>),
       Cell(6, 2, <<F("purpose", "s")>>),
       Spacer(20),
       P("Heading2", <<L("PROPERTY DESCRIPTION")>>),
       Table(8, 2),
       Cell(1, 1, <<L("Property Address:")>>),
       Cell(1, 2, <<F("property_address", "s")>>),
       Cell(2, 1, <<L("Legal Description:")>>),
       Cell(2, 2, <<F("legal_description", "s")>>),
       Cell(3, 1, <<L("Property Type:")>>),
       Cell(3, 2, <<F("property_type", "s")>>),
       Cell(4, 1, <<L("Year Built:")>>),
       Cell(4, 2, <<F("year_built", "s")>>),
       Cell(5, 1, <<L("Total Living Area:")>>),
       Cell(5, 2, <<F("living_area", "comma"), L(" sq ft")>>),
       Cell(6, 1, <<L("Lot Size:")>>),
       Cell(6, 2, <<F("lot_size", "comma"), L(" sq ft")>>),
       Cell(7, 1, <<L("Bedrooms:")>>),
       Cell(7, 2, <<F("bedrooms", "s")>>),
       Cell(8, 1, <<L("Bathrooms:")>>),
       Cell(8, 2, <<F("bathrooms", "s")>>),
       Spacer(20),
       P("Heading2", <<L("VALUATION APPROACHES")>>),
       Table(5, 4) >>
    \o approaches_data \o
    << Spacer(20),
       P("Heading2", <<L("MARKET ANALYSIS")>>),
       P("Normal", <<
               L("The subject property is located in a "), F("market_conditions", "s"),
               L(" market area. Recent sales in the neighborhood range from "), L("$"),
               F("low_comp", "comma"), L(" to "), L("$"), F("high_comp", "comma"),
               L(". Market trends indicate "), F("market_trend", "s"),
               L(" property values in this area. The local real estate market has been "),
               F("market_activity", "s"), L(" with an average days on market of "),
               F("days_on_market", "d"), L(" days.") >>),
       Spacer(20),
       P("Heading2", <<L("APPRAISER CERTIFICATION")>>),
       P("Normal", <<
               L("I certify that, to the best of my knowledge and belief, the statements and information in this report are true and correct. I have no present or prospective interest in the property that is the subject of this report. This appraisal was prepared in accordance with the Uniform Standards of Professional Appraisal Practice.") >>),
       Spacer(20),
       P("Normal", <<
               L("Appraiser Signature: "), F("appraiser_signature", "s"), L("<br/>Date: "),
               F("signature_date", "s") >>),
       Spacer(30),
       P("Footer", <<
               L("This is a sample document for testing purposes only. All information is fictional.") >>) >>

create_property_valuation(valuation_data) == Render(create_property_valuation_template, valuation_data)

\* generate_fire_insurance_pdfs.py, lines 444-580: the text items of the body, in order.
create_construction_specifications_template ==
    << P("Title", <<L("CONSTRUCTION SPECIFICATIONS")>>),
       Spacer(12),
       Table(6, 2),
       Cell(1, 1, <<L("Project Name:")>>),
       Cell(1, 2, <<F("project_name", "s")>>),
       Cell(2, 1, <<L("Project Address:")>>),
       Cell(2, 2, <<F("project_address", "s")>>),
       Cell(3, 1, <<L("Architect:")>>),
       Cell(3, 2, <<F("architect", "s")>>),
       Cell(4, 1, <<L("General Contractor:")>>),
       Cell(4, 2, <<F("contractor", "s")>>),
       Cell(5, 1, <<L("Project Manager:")>>),
       Cell(5, 2, <<F("project_manager", "s")>>),
       Cell(6, 1, <<L("Specification Date:")>>),
       Cell(6, 2, <<F("spec_date", "s")>>),
       Spacer(20),
       P("Heading2", <<L("SECTION 1: FOUNDATION")>>),
       Table(6, 3),
       Cell(1, 1, <<L("Component")>>),
       Cell(1, 2, <<L("Specification")>>),
       Cell(1, 3, <<L("Standard/Code")>>),
       Cell(2, 1, <<L("Excavation")>>),
       Cell(2, 2, <<L("Machine excavation to 8' depth")>>),
       Cell(2, 3, <<L("ASTM D2488")>>),
       Cell(3, 1, <<L("Footings")>>),
       Cell(3, 2, <<L("24\" x 12\" reinforced concrete")>>),
       Cell(3, 3, <<L("ACI 318")>>),
       Cell(4, 1, <<L("Foundation Walls")>>),
       Cell(4, 2, <<L("8\" concrete block, Type N mortar")>>),
       Cell(4, 3, <<L("ASTM C90")>>),
       Cell(5, 1, <<L("Waterproofing")>>),
       Cell(5, 2, <<L("Membrane waterproofing system")>>),
       Cell(5, 3, <<L("ASTM D6164")>>),
       Cell(6, 1, <<L("Drainage")>>),
       Cell(6, 2, <<L("4\" perforated drain tile")>>),
       Cell(6, 3, <<L("ASTM D3034")>>),
       Spacer(20),
       P("Heading2", <<L("SECTION 2: FRAMING")>>),
       Table(6, 3),
       Cell(1, 1, <<L("Component")>>),
       Cell(1, 2, <<L("Specification")>>),
       Cell(1, 3, <<L("Standard/Code")>>),
       Cell(2, 1, <<L("Floor Joists")>>),
       Cell(2, 2, <<L("2x10 SPF @ 16\" O.C.")>>),
       Cell(2, 3, <<L("IRC 502")>>),
       Cell(3, 1, <<L("Wall Studs")>>),
       Cell(3, 2, <<L("2x6 SPF @ 16\" O.C.")>>),
       Cell(3, 3, <<L("IRC 602")>>),
       Cell(4, 1, <<L("Roof Rafters")>>),
       Cell(4, 2, <<L("2x8 SPF @ 16\" O.C.")>>),
       Cell(4, 3, <<L("IRC 802")>>),
       Cell(5, 1, <<L("Sheathing")>>),
       Cell(5, 2, <<L("7/16\" OSB, APA rated")>>),
       Cell(5, 3, <<L("APA PRP-108")>>),
       Cell(6, 1, <<L("Hardware")>>),
       Cell(6, 2, <<L("Simpson Strong-Tie connectors")>>),
       Cell(6, 3, <<L("ICC-ES reports")>>),
       Spacer(20),
       P("Heading2", <<L("SECTION 3: FIRE SAFETY SYSTEMS")>>),
       Table(6, 3),
       Cell(1, 1, <<L("System")>>),
       Cell(1, 2, <<L("Specification")>>),
       Cell(1, 3, <<L("Standard/Code")>>),
       Cell(2, 1, <<L("Fire Alarm")>>),
       Cell(2, 2, <<L("Addressable system, 24V DC")>>),
       Cell(2, 3, <<L("NFPA 72")>>),
       Cell(3, 1, <<L("Sprinkler System")>>),
       Cell(3, 2, <<L("Wet pipe system, standard response")>>),
       Cell(3, 3, <<L("NFPA 13")>>),
       Cell(4, 1, <<L("Fire Extinguishers")>>),
       Cell(4, 2, <<L("2A:10B:C rated, wall mounted")>>),
       Cell(4, 3, <<L("NFPA 10")>>),
       Cell(5, 1, <<L("Emergency Exits")>>),
       Cell(5, 2, <<L("Illuminated exit signs, LED")>>),
       Cell(5, 3, <<L("NFPA 101")>>),
       Cell(6, 1, <<L("Fire Doors")>>),
       Cell(6, 2, <<L("90-minute rated, self-closing")>>),
       Cell(6, 3, <<L("NFPA 80")>>),
       Spacer(20),
       P("Heading2", <<L("QUALITY CONTROL")>>),
       P("Normal", <<
               L("All materials and workmanship shall conform to applicable building codes and standards. Regular inspections will be conducted at key milestones: {bullet} Foundation inspection before concrete pour {bullet} Framing inspection before insulation {bullet} Electrical rough-in inspection {bullet} Plumbing rough-in inspection {bullet} Fire safety systems testing and inspection {bullet} Final building inspection All work must be performed by licensed contractors and inspected by certified inspectors.") >>),
       Spacer(30),
       P("Footer", <<
               L("This is a sample document for testing purposes only. All information is fictional.") >>) >>

create_construction_specifications(construction_data) == Render(create_construction_specifications_template, construction_data)

\* -------- src/generate_general_forms_pdfs.py --------

\* generate_general_forms_pdfs.py, lines 16-52: the text items of the body, in order.
create_id_card_template ==
    << D(5, 138, <<L("IDENTIFICATION CARD")>>),
       D(5, 123, <<L("ID Number: "), F("id_number", "s")>>),
       D(5, 111, <<L("Issued: "), F("issue_date", "s")>>),
       D(5, 99, <<L("Expires: "), F("expiry_date", "s")>>),
       D(5, 78, <<L("Name: "), F("name_redacted", "s")>>),
       D(5, 66, <<L("DOB: "), F("dob_redacted", "s")>>),
       D(5, 54, <<L("Address: "), F("address_redacted", "s")>>),
       D(188, 98, <<L("PHOTO")>>),
       D(185, 105, <<L("REDACTED")>>),
       D(5, 10, <<L("SAMPLE DOCUMENT - PERSONAL INFO REDACTED FOR PRIVACY")>>) >>

create_id_card(id_data) == Render(create_id_card_template, id_data)

\* generate_general_forms_pdfs.py, lines 54-117: the text items of the body, in order.
create_passport_sample_template ==
    << D(10, 371, <<L("UNITED STATES OF AMERICA")>>),
       D(10, 356, <<L("PASSPORT")>>),
       D(10, 336, <<L("Passport No: "), F("passport_number", "s")>>),
       D(10, 324, <<L("Type: "), F("passport_type", "s")>>),
       D(10, 312, <<L("Issued: "), F("issue_date", "s")>>),
       D(10, 300, <<L("Expires: "), F("expiry_date", "s")>>),
       D(10, 276, <<L("PERSONAL DATA (REDACTED)")>>),
       D(10, 256, <<L("Surname: "), F("surname_redacted", "s")>>),
       D(10, 244, <<L("Given Names: "), F("given_names_redacted", "s")>>),
       D(10, 232, <<L("Nationality: "), F("nationality", "s")>>),
       D(10, 220, <<L("Date of Birth: "), F("dob_redacted", "s")>>),
       D(10, 208, <<L("Place of Birth: "), F("pob_redacted", "s")>>),
       D(10, 196, <<L("Sex: "), F("sex_redacted", "s")>>),
       D(231, 261, <<L("PHOTO")>>),
       D(228, 268, <<L("REDACTED")>>),
       D(15, 40, <<L("P<USAXXXXXXXXXXXXXXXXXXXXXXXXX")>>),
       D(15, 32, <<L("XXXXXXXXXXXXXXXXXXXXXXXXXXXXXX")>>),
       D(15, 24, <<L("MACHINE READABLE ZONE REDACTED")>>),
       D(10, 5, <<L("SAMPLE DOCUMENT - PERSONAL INFO REDACTED FOR PRIVACY")>>) >>

create_passport_sample(passport_data) == Render(create_passport_sample_template, passport_data)

\* generate_general_forms_pdfs.py, lines 119-226: the text items of the body, in order.
create_proof_of_address_template ==
    << P("Title", <<L("CITY UTILITIES COMPANY")>>),
       P("Normal", <<L("123 Utility Street, Springfield, IL 62701")>>),
       P("Normal", <<L("Phone: (555) 123-UTIL | www.cityutilities.com")>>),
       Spacer(20),
       Table(5, 2),
       Cell(1, 1, <<L("Account Number:")>>),
       Cell(1, 2, <<F("account_number", "s")>>),
       Cell(2, 1, <<L("Service Address:")>>),
       Cell(2, 2, <<F("service_address", "s")>>),
       Cell(3, 1, <<L("Billing Period:")>>),
       Cell(3, 2, <<F("billing_start", "s"), L(" to "), F("billing_end", "s")>>),
       Cell(4, 1, <<L("Bill Date:")>>),
       Cell(4, 2, <<F("bill_date", "s")>>),
       Cell(5, 1, <<L("Due Date:")>>),
       Cell(5, 2, <<F("due_date", "s")>>),
       Spacer(20),
       P("Heading2", <<L("BILLING INFORMATION")>>),
       Table(4, 2),
       Cell(1, 1, <<L("Customer Name:")>>),
       Cell(1, 2, <<F("customer_name", "s")>>),
       Cell(2, 1, <<L("Billing Address:")>>),
       Cell(2, 2, <<F("billing_address", "s")>>),
       Cell(3, 1, <<L("Account Type:")>>),
       Cell(3, 2, <<F("account_type", "s")>>),
       Cell(4, 1, <<L("Service Type:")>>),
       Cell(4, 2, <<F("service_type", "s")>>),
       Spacer(20),
       P("Heading2", <<L("CURRENT CHARGES")>>),
       Table(7, 4),
       Cell(1, 1, <<L("Service")>>),
       Cell(1, 2, <<L("Usage")>>),
       Cell(1, 3, <<L("Rate")>>),
       Cell(1, 4, <<L("Amount")>>),
       Cell(2, 1, <<L("Electricity")>>),
       Cell(2, 2, <<F("kwh_usage", "d"), L(" kWh")>>),
       Cell(2, 3, <<L("$"), F("kwh_rate", "f4"), L("/kWh")>>),
       Cell(2, 4, <<L("$"), F("electric_charge", "f2")>>),
       Cell(3, 1, <<L("Natural Gas")>>),
       Cell(3, 2, <<F("gas_usage", "d"), L(" Therms")>>),
       Cell(3, 3, <<L("$"), F("gas_rate", "f4"), L("/Therm")>>),
       Cell(3, 4, <<L("$"), F("gas_charge", "f2")>>),
       Cell(4, 1, <<L("Water/Sewer")>>),
       Cell(4, 2, <<F("water_usage", "d"), L(" Gallons")>>),
       Cell(4, 3, <<L("$"), F("water_rate", "f4"), L("/Gal")>>),
       Cell(4, 4, <<L("$"), F("water_charge", "f2")>>),
       Cell(5, 1, <<L("Service Fee")>>),
       Cell(5, 2, <<L("1")>>),
       Cell(5, 3, <<L("$"), F("service_fee", "f2")>>),
       Cell(5, 4, <<L("$"), F("service_fee", "f2")>>),
       Cell(6, 1, <<L("Taxes")>>),
       Cell(6, 2, <<>>),
       Cell(6, 3, <<>>),
       Cell(6, 4, <<L("$"), F("taxes", "f2")>>),
       Cell(7, 1, <<L("Total Amount Due")>>),
       Cell(7, 2, <<>>),
       Cell(7, 3, <<>>),
       Cell(7, 4, <<L("$"), F("total_due", "f2")>>),
       Spacer(20),
       P("Heading2", <<L("PAYMENT INFORMATION")>>),
       P("Normal", <<
               L("Please remit payment by "), F("due_date", "s"),
               L(" Payment Options: {bullet} Online: www.cityutilities.com/pay {bullet} Phone: (555) 123-UTIL {bullet} Mail: City Utilities, PO Box 12345, Springfield, IL 62701 {bullet} In Person: 123 Utility Street, Springfield, IL Thank you for your business!") >>),
       Spacer(30),
       P("Footer", <<
               L("This is a sample document for testing purposes only. All information is fictional.") >>) >>

create_proof_of_address(address_data) == Render(create_proof_of_address_template, address_data)

\* generate_general_forms_pdfs.py, lines 228-331: the text items of the body, in order.
create_bank_statement_template ==
    << P("Title", <<L("FIRST NATIONAL BANK")>>),
       P("Normal", <<L("456 Banking Street, Chicago, IL 60601")>>),
       P("Normal", <<L("Phone: (312) 555-BANK | www.firstnationalbank.com")>>),
       Spacer(20),
       P("Heading1", <<L("MONTHLY ACCOUNT STATEMENT")>>),
       Spacer(12),
       Table(5, 2),
       Cell(1, 1, <<L("Account Holder:")>>),
       Cell(1, 2, <<F("account_holder", "s")>>),
       Cell(2, 1, <<L("Account Number:")>>),
       Cell(2, 2, <<F("account_number_redacted", "s")>>),
       Cell(3, 1, <<L("Account Type:")>>),
       Cell(3, 2, <<F("account_type", "s")>>),
       Cell(4, 1, <<L("Statement Period:")>>),
       Cell(4, 2, <<F("statement_start", "s"), L(" to "), F("statement_end", "s")>>),
       Cell(5, 1, <<L("Statement Date:")>>),
       Cell(5, 2, <<F("statement_date", "s")>>),
       Spacer(20),
       P("Heading2", <<L("ACCOUNT SUMMARY")>>),
       Table(6, 2),
       Cell(1, 1, <<L("Beginning Balance:")>>),
       Cell(1, 2, <<L("$"), F("beginning_balance", "f2")>>),
       Cell(2, 1, <<L("Total Deposits:")>>),
       Cell(2, 2, <<L("$"), F("total_deposits", "f2")>>),
       Cell(3, 1, <<L("Total Withdrawals:")>>),
       Cell(3, 2, <<L("$"), F("total_withdrawals", "f2")>>),
       Cell(4, 1, <<L("Service Charges:")>>),
       Cell(4, 2, <<L("$"), F("service_charges", "f2")>>),
       Cell(5, 1, <<L("Interest Earned:")>>),
       Cell(5, 2, <<L("$"), F("interest_earned", "f2")>>),
       Cell(6, 1, <<L("Ending Balance:")>>),
       Cell(6, 2, <<L("$"), F("ending_balance", "f2")>>),
       Spacer(20),
       P("Heading2", <<L("TRANSACTION HISTORY (SAMPLE)")>>),
       Table(8, 5),
       Cell(1, 1, <<L("Date")>>),
       Cell(1, 2, <<L("Description")>>),
       Cell(1, 3, <<L("Withdrawal")>>),
       Cell(1, 4, <<L("Deposit")>>),
       Cell(1, 5, <<L("Balance")>>),
       Cell(2, 1, <<F("statement_start", "s")>>),
       Cell(2, 2, <<L("Beginning Balance")>>),
       Cell(2, 3, <<>>),
       Cell(2, 4, <<>>),
       Cell(2, 5, <<L("$"), F("beginning_balance", "f2")>>),
       Cell(3, 1, <<L("XX/XX/XXXX")>>),
       Cell(3, 2, <<L("DEPOSIT - PAYROLL [REDACTED]")>>),
       Cell(3, 3, <<>>),
       Cell(3, 4, <<L("XXX.XX")>>),
       Cell(3, 5, <<L("XXX.XX")>>),
       Cell(4, 1, <<L("XX/XX/XXXX")>>),
       Cell(4, 2, <<L("DEBIT CARD PURCHASE [REDACTED]")>>),
       Cell(4, 3, <<L("XXX.XX")>>),
       Cell(4, 4, <<>>),
       Cell(4, 5, <<L("XXX.XX")>>),
       Cell(5, 1, <<L("XX/XX/XXXX")>>),
       Cell(5, 2, <<L("ONLINE TRANSFER [REDACTED]")>>),
       Cell(5, 3, <<L("XXX.XX")>>),
       Cell(5, 4, <<>>),
       Cell(5, 5, <<L("XXX.XX")>>),
       Cell(6, 1, <<L("XX/XX/XXXX")>>),
       Cell(6, 2, <<L("ATM WITHDRAWAL [REDACTED]")>>),
       Cell(6, 3, <<L("XXX.XX")>>),
       Cell(6, 4, <<>>),
       Cell(6, 5, <<L("XXX.XX")>>),
       Cell(7, 1, <<L("XX/XX/XXXX")>>),
       Cell(7, 2, <<L("DEPOSIT - MOBILE [REDACTED]")>>),
       Cell(7, 3, <<>>),
       Cell(7, 4, <<L("XXX.XX")>>),
       Cell(7, 5, <<L("XXX.XX")>>),
       Cell(8, 1, <<F("statement_end", "s")>>),
       Cell(8, 2, <<L("Ending Balance")>>),
       Cell(8, 3, <<>>),
       Cell(8, 4, <<>>),
       Cell(8, 5, <<L("$"), F("ending_balance", "f2")>>),
       Spacer(20),
       P("Notice", <<
               L("<b>PRIVACY NOTICE:</b> Specific transaction details and amounts have been redacted for privacy protection. This statement demonstrates format and layout only.") >>),
       Spacer(30),
       P("Footer", <<
               L("This is a sample document for testing purposes only. All information is fictional.") >>) >>

create_bank_statement(bank_data) == Render(create_bank_statement_template, bank_data)

\* generate_general_forms_pdfs.py, lines 333-427: the text items of the body, in order.
create_employment_letter_template ==
    << P("Title", <<L("GLOBAL TECHNOLOGY SOLUTIONS INC.")>>),
       P("Normal", <<L("789 Business Park Drive, Suite 500")>>),
       P("Normal", <<L("Chicago, Illinois 60601")>>),
       P("Normal", <<L("Phone: (312) 555-0199 | Fax: (312) 555-0198")>>),
       Spacer(30),
       P("Normal", <<L("Date: "), F("letter_date", "s")>>),
       Spacer(20),
       P("Heading1", <<L("EMPLOYMENT VERIFICATION LETTER")>>),
       Spacer(20),
       P("Normal", <<L("To Whom It May Concern:")>>),
       Spacer(12),
       P("Normal", <<
               L("This letter serves to verify the employment of <b>"), F("employee_name", "s"),
               L("</b> with Global Technology Solutions Inc. Employee Details: {bullet} Full Name: "),
               F("employee_name", "s"), L(" {bullet} Employee ID: "), F("employee_id", "s"),
               L(" {bullet} Position/Title: "), F("position", "s"), L(" {bullet} Department: "),
               F("department", "s"), L(" {bullet} Employment Status: "),
               F("employment_status", "s"), L(" {bullet} Employment Start Date: "),
               F("start_date", "s"), L(" {bullet} Current Employment: "), F("current_status", "s"),
               L(" Compensation Information: {bullet} Current Annual Salary: "), L("$"),
               F("annual_salary", "comma"), L(" {bullet} Pay Frequency: "),
               F("pay_frequency", "s"), L(" {bullet} Employment Type: "),
               F("employment_type", "s"), L(" Work Schedule: {bullet} Standard Hours: "),
               F("standard_hours", "d"), L(" hours per week {bullet} Work Location: "),
               F("work_location", "s"), L(" "), F("employee_name", "s"),
               L(" is a valued member of our team and has consistently demonstrated "),
               F("performance_note", "s"),
               L(". This employment verification is provided for official purposes only. If you require any additional information or have questions regarding this verification, please feel free to contact our Human Resources department at (312) 555-0199 ext. 1234 or via email at hr@globaltechsolutions.com.") >>),
       Spacer(30),
       P("Normal", <<
               L("Sincerely, Sarah Johnson Director of Human Resources Global Technology Solutions Inc. Phone: (312) 555-0199 ext. 1234 Email: sjohnson@globaltechsolutions.com") >>),
       Spacer(20),
       P("Disclaimer", <<
               L("<i>This letter is confidential and intended solely for the purpose stated. Any unauthorized distribution or use is prohibited.</i>") >>),
       Spacer(20),
       P("Footer", <<
               L("This is a sample document for testing purposes only. All information is fictional.") >>) >>

create_employment_letter(employment_data) == Render(create_employment_letter_template, employment_data)

\* generate_general_forms_pdfs.py, lines 429-556: the text items of the body, in order.
create_medical_certificate_template ==
    << P("Title", <<L("SPRINGFIELD MEDICAL CENTER")>>),
       P("Normal", <<L("123 Healthcare Drive, Springfield, IL 62701")>>),
       P("Normal", <<L("Phone: (217) 555-CARE | Fax: (217) 555-CARE")>>),
       Spacer(20),
       P("Heading1", <<L("MEDICAL CERTIFICATE")>>),
       Spacer(12),
       Table(5, 2),
       Cell(1, 1, <<L("Certificate Number:")>>),
       Cell(1, 2, <<F("certificate_number", "s")>>),
       Cell(2, 1, <<L("Issue Date:")>>),
       Cell(2, 2, <<F("issue_date", "s")>>),
       Cell(3, 1, <<L("Physician:")>>),
       Cell(3, 2, <<F("physician_name", "s")>>),
       Cell(4, 1, <<L("License Number:")>>),
       Cell(4, 2, <<F("physician_license", "s")>>),
       Cell(5, 1, <<L("Specialty:")>>),
       Cell(5, 2, <<F("physician_specialty", "s")>>),
       Spacer(20),
       P("Heading2", <<L("PATIENT INFORMATION")>>),
       Table(4, 2),
       Cell(1, 1, <<L("Patient Name:")>>),
       Cell(1, 2, <<F("patient_name", "s")>>),
       Cell(2, 1, <<L("Date of Birth:")>>),
       Cell(2, 2, <<F("patient_dob", "s")>>),
       Cell(3, 1, <<L("Patient ID:")>>),
       Cell(3, 2, <<F("patient_id", "s")>>),
       Cell(4, 1, <<L("Examination Date:")>>),
       Cell(4, 2, <<F("examination_date", "s")>>),
       Spacer(20),
       P("Heading2", <<L("MEDICAL FINDINGS")>>),
       P("Normal", <<
               L("<b>Chief Complaint:</b> "), F("chief_complaint", "s"),
               L(" <b>History of Present Illness:</b> "), F("history_present_illness", "s"),
               L(" <b>Physical Examination:</b> {bullet} Vital Signs: BP "),
               F("blood_pressure", "s"), L(", HR "), F("heart_rate", "s"), L(", Temp "),
               F("temperature", "s"), L("{deg}F, Resp "), F("respiratory_rate", "s"),
               L(" {bullet} General Appearance: "), F("general_appearance", "s"),
               L(" {bullet} Relevant Findings: "), F("relevant_findings", "s"),
               L(" <b>Diagnostic Tests:</b> "), F("diagnostic_tests", "s"),
               L(" <b>Assessment and Diagnosis:</b> "), F("diagnosis", "s"),
               L(" <b>Treatment Provided:</b> "), F("treatment", "s"),
               L(" <b>Work/Activity Restrictions:</b> "), F("restrictions", "s"),
               L(" <b>Follow-up Care:</b> "), F("followup", "s") >>),
       Spacer(20),
       P("Normal", <<
               L("<b>PHYSICIAN CERTIFICATION:</b> I certify that I have examined the above-named patient on "),
               F("examination_date", "s"),
               L(" and that the information provided in this certificate is accurate to the best of my medical knowledge and professional judgment. This certificate is issued for insurance/legal purposes as requested. Physician Signature: "),
               F("physician_signature", "s"), L(" Date: "), F("signature_date", "s"), L(" Dr. "),
               F("physician_name", "s"), L(", "), F("physician_credentials", "s"), L(" "),
               F("physician_specialty", "s"), L(" License #: "), F("physician_license", "s") >>),
       Spacer(20),
       P("Disclaimer", <<
               L("<i>This medical certificate is confidential and contains protected health information. Distribution is restricted to authorized parties only.</i>") >>),
       Spacer(20),
       P("Footer", <<
               L("This is a sample document for testing purposes only. All information is fictional.") >>) >>

create_medical_certificate(medical_data) == Render(create_medical_certificate_template, medical_data)

\* -------- src/generate_liability_insurance_pdfs.py --------

\* generate_liability_insurance_pdfs.py, lines 16-111: the text items of the body, in order.
create_business_registration_template ==
    << D(50, 742, <<L("STATE DEPARTMENT OF COMMERCE")>>),
       D(50, 712, <<L("CERTIFICATE OF BUSINESS REGISTRATION")>>),
       D(362, 742, <<L("Registration No: "), F("registration_number", "s")>>),
       D(362, 722, <<L("Issue Date: "), F("issue_date", "s")>>),
       D(362, 702, <<L("Expiration: "), F("expiration_date", "s")>>),
       D(50, 652, <<L("BUSINESS INFORMATION")>>),
       D(50, 622, <<L("Business Name:")>>),
       D(200, 622, <<F("business_name", "s")>>),
       D(50, 597, <<L("DBA Name:")>>),
       D(200, 597, <<F("dba_name", "s")>>),
       D(50, 572, <<L("Business Type:")>>),
       D(200, 572, <<F("business_type", "s")>>),
       D(50, 547, <<L("Industry:")>>),
       D(200, 547, <<F("industry", "s")>>),
       D(50, 522, <<L("Federal EIN:")>>),
       D(200, 522, <<F("federal_ein", "s")>>),
       D(50, 497, <<L("State Tax ID:")>>),
       D(200, 497, <<F("state_tax_id", "s")>>),
       D(50, 452, <<L("BUSINESS ADDRESS")>>),
       D(50, 422, <<L("Street Address:")>>),
       D(200, 422, <<F("street_address", "s")>>),
       D(50, 397, <<L("City, State, ZIP:")>>),
       D(200, 397, <<F("city", "s"), L(", "), F("state", "s"), L(" "), F("zip_code", "s")>>),
       D(50, 372, <<L("Phone:")>>),
       D(200, 372, <<F("phone", "s")>>),
       D(50, 347, <<L("Email:")>>),
       D(200, 347, <<F("email", "s")>>),
       D(50, 302, <<L("OWNER/OFFICER INFORMATION")>>),
       D(50, 272, <<L("Principal Owner:")>>),
       D(200, 272, <<F("principal_owner", "s")>>),
       D(50, 247, <<L("Title:")>>),
       D(200, 247, <<F("owner_title", "s")>>),
       D(50, 222, <<L("Ownership %:")>>),
       D(200, 222, <<F("ownership_percentage", "s")>>),
       D(50, 197, <<L("Owner Address:")>>),
       D(200, 197, <<F("owner_address", "s")>>),
       D(50, 152, <<L("AUTHORIZED BUSINESS ACTIVITIES")>>),
       ForEach("activities", << >>,
            D(70, 127, <<L("{bullet} ")>>), 20,
            << >>),
       D(50, 80, <<
               L("This certificate is valid only for the business activities listed above.") >>),
       D(50, 65, <<L("Any changes to business information must be reported within 30 days.")>>),
       D(50, 50, <<L("This is a sample document for testing purposes only")>>),
       D(50, 35, <<L("All information contained herein is fictional")>>) >>

create_business_registration(business_data) == Render(create_business_registration_template, business_data)

\* generate_liability_insurance_pdfs.py, lines 113-263: the text items of the body, in order.
create_financial_statement_template ==
    << P("Title", <<L("FINANCIAL STATEMENT")>>),
       Spacer(12),
       Table(5, 2),
       Cell(1, 1, <<L("Company Name:")>>),
       Cell(1, 2, <<F("company_name", "s")>>),
       Cell(2, 1, <<L("Statement Period:")>>),
       Cell(2, 2, <<F("period_start", "s"), L(" to "), F("period_end", "s")>>),
       Cell(3, 1, <<L("Statement Date:")>>),
       Cell(3, 2, <<F("statement_date", "s")>>),
       Cell(4, 1, <<L("Prepared By:")>>),
       Cell(4, 2, <<F("prepared_by", "s")>>),
       Cell(5, 1, <<L("CPA Firm:")>>),
       Cell(5, 2, <<F("cpa_firm", "s")>>),
       Spacer(20),
       P("Heading2", <<L("BALANCE SHEET")>>),
       P("Heading3", <<L("ASSETS")>>),
       Table(13, 3),
       Cell(1, 1, <<L("Current Assets")>>),
       Cell(1, 2, <<>>),
       Cell(1, 3, <<>>),
       Cell(2, 1, <<L("Cash and Cash Equivalents")>>),
       Cell(2, 2, <<>>),
       Cell(2, 3, <<L("$"), F("cash", "comma")>>),
       Cell(3, 1, <<L("Accounts Receivable")>>),
       Cell(3, 2, <<>>),
       Cell(3, 3, <<L("$"), F("accounts_receivable", "comma")>>),
       Cell(4, 1, <<L("Inventory")>>),
       Cell(4, 2, <<>>),
       Cell(4, 3, <<L("$"), F("inventory", "comma")>>),
       Cell(5, 1, <<L("Prepaid Expenses")>>),
       Cell(5, 2, <<>>),
       Cell(5, 3, <<L("$"), F("prepaid_expenses", "comma")>>),
       Cell(6, 1, <<L("Total Current Assets")>>),
       Cell(6, 2, <<>>),
       Cell(6, 3, <<L("$"), F("total_current_assets", "comma")>>),
       Cell(7, 1, <<>>),
       Cell(7, 2, <<>>),
       Cell(7, 3, <<>>),
       Cell(8, 1, <<L("Fixed Assets")>>),
       Cell(8, 2, <<>>),
       Cell(8, 3, <<>>),
       Cell(9, 1, <<L("Property, Plant & Equipment")>>),
       Cell(9, 2, <<>>),
       Cell(9, 3, <<L("$"), F("ppe", "comma")>>),
       Cell(10, 1, <<L("Less: Accumulated Depreciation")>>),
       Cell(10, 2, <<>>),
       Cell(10, 3, <<L("("), L("$"), F("accumulated_depreciation", "comma"), L(")")>>),
       Cell(11, 1, <<L("Net Fixed Assets")>>),
       Cell(11, 2, <<>>),
       Cell(11, 3, <<L("$"), F("net_fixed_assets", "comma")>>),
       Cell(12, 1, <<>>),
       Cell(12, 2, <<>>),
       Cell(12, 3, <<>>),
       Cell(13, 1, <<L("TOTAL ASSETS")>>),
       Cell(13, 2, <<>>),
       Cell(13, 3, <<L("$"), F("total_assets", "comma")>>),
       Spacer(20),
       P("Heading3", <<L("LIABILITIES AND EQUITY")>>),
       Table(15, 3),
       Cell(1, 1, <<L("Current Liabilities")>>),
       Cell(1, 2, <<>>),
       Cell(1, 3, <<>>),
       Cell(2, 1, <<L("Accounts Payable")>>),
       Cell(2, 2, <<>>),
       Cell(2, 3, <<L("$"), F("accounts_payable", "comma")>>),
       Cell(3, 1, <<L("Accrued Expenses")>>),
       Cell(3, 2, <<>>),
       Cell(3, 3, <<L("$"), F("accrued_expenses", "comma")>>),
       Cell(4, 1, <<L("Short-term Debt")>>),
       Cell(4, 2, <<>>),
       Cell(4, 3, <<L("$"), F("short_term_debt", "comma")>>),
       Cell(5, 1, <<L("Total Current Liabilities")>>),
       Cell(5, 2, <<>>),
       Cell(5, 3, <<L("$"), F("total_current_liabilities", "comma")>>),
       Cell(6, 1, <<>>),
       Cell(6, 2, <<>>),
       Cell(6, 3, <<>>),
       Cell(7, 1, <<L("Long-term Debt")>>),
       Cell(7, 2, <<>>),
       Cell(7, 3, <<L("$"), F("long_term_debt", "comma")>>),
       Cell(8, 1, <<L("Total Liabilities")>>),
       Cell(8, 2, <<>>),
       Cell(8, 3, <<L("$"), F("total_liabilities", "comma")>>),
       Cell(9, 1, <<>>),
       Cell(9, 2, <<>>),
       Cell(9, 3, <<>>),
       Cell(10, 1, <<L("Shareholders' Equity")>>),
       Cell(10, 2, <<>>),
       Cell(10, 3, <<>>),
       Cell(11, 1, <<L("Common Stock")>>),
       Cell(11, 2, <<>>),
       Cell(11, 3, <<L("$"), F("common_stock", "comma")>>),
       Cell(12, 1, <<L("Retained Earnings")>>),
       Cell(12, 2, <<>>),
       Cell(12, 3, <<L("$"), F("retained_earnings", "comma")>>),
       Cell(13, 1, <<L("Total Shareholders' Equity")>>),
       Cell(13, 2, <<>>),
       Cell(13, 3, <<L("$"), F("total_equity", "comma")>>),
       Cell(14, 1, <<>>),
       Cell(14, 2, <<>>),
       Cell(14, 3, <<>>),
       Cell(15, 1, <<L("TOTAL LIABILITIES & EQUITY")>>),
       Cell(15, 2, <<>>),
       Cell(15, 3, <<L("$"), F("total_liab_equity", "comma")>>),
       Spacer(30),
       P("Heading2", <<L("INCOME STATEMENT")>>),
       Table(17, 3),
       Cell(1, 1, <<L("Revenue")>>),
       Cell(1, 2, <<>>),
       Cell(1, 3, <<L("$"), F("revenue", "comma")>>),
       Cell(2, 1, <<L("Cost of Goods Sold")>>),
       Cell(2, 2, <<>>),
       Cell(2, 3, <<L("$"), F("cogs", "comma")>>),
       Cell(3, 1, <<L("Gross Profit")>>),
       Cell(3, 2, <<>>),
       Cell(3, 3, <<L("$"), F("gross_profit", "comma")>>),
       Cell(4, 1, <<>>),
       Cell(4, 2, <<>>),
       Cell(4, 3, <<>>),
       Cell(5, 1, <<L("Operating Expenses")>>),
       Cell(5, 2, <<>>),
       Cell(5, 3, <<>>),
       Cell(6, 1, <<L("Salaries and Benefits")>>),
       Cell(6, 2, <<>>),
       Cell(6, 3, <<L("$"), F("salaries", "comma")>>),
       Cell(7, 1, <<L("Rent and Utilities")>>),
       Cell(7, 2, <<>>),
       Cell(7, 3, <<L("$"), F("rent_utilities", "comma")>>),
       Cell(8, 1, <<L("Marketing and Advertising")>>),
       Cell(8, 2, <<>>),
       Cell(8, 3, <<L("$"), F("marketing", "comma")>>),
       Cell(9, 1, <<L("Professional Services")>>),
       Cell(9, 2, <<>>),
       Cell(9, 3, <<L("$"), F("professional_services", "comma")>>),
       Cell(10, 1, <<L("Other Operating Expenses")>>),
       Cell(10, 2, <<>>),
       Cell(10, 3, <<L("$"), F("other_expenses", "comma")>>),
       Cell(11, 1, <<L("Total Operating Expenses")>>),
       Cell(11, 2, <<>>),
       Cell(11, 3, <<L("$"), F("total_operating_expenses", "comma")>>),
       Cell(12, 1, <<>>),
       Cell(12, 2, <<>>),
       Cell(12, 3, <<>>),
       Cell(13, 1, <<L("Operating Income")>>),
       Cell(13, 2, <<>>),
       Cell(13, 3, <<L("$"), F("operating_income", "comma")>>),
       Cell(14, 1, <<L("Interest Expense")>>),
       Cell(14, 2, <<>>),
       Cell(14, 3, <<L("$"), F("interest_expense", "comma")>>),
       Cell(15, 1, <<L("Net Income Before Taxes")>>),
       Cell(15, 2, <<>>),
       Cell(15, 3, <<L("$"), F("income_before_taxes", "comma")>>),
       Cell(16, 1, <<L("Income Tax Expense")>>),
       Cell(16, 2, <<>>),
       Cell(16, 3, <<L("$"), F("tax_expense", "comma")>>),
       Cell(17, 1, <<L("NET INCOME")>>),
       Cell(17, 2, <<>>),
       Cell(17, 3, <<L("$"), F("net_income", "comma")>>),
       Spacer(30),
       P("Footer", <<
               L("This is a sample document for testing purposes only. All information is fictional.") >>) >>

create_financial_statement(financial_data) == Render(create_financial_statement_template, financial_data)

\* generate_liability_insurance_pdfs.py, lines 265-405: the text items of the body, in order.
create_liability_policy_template ==
    << P("Title", <<L("GENERAL LIABILITY INSURANCE POLICY")>>),
       Spacer(12),
       Table(5, 2),
       Cell(1, 1, <<L("Policy Number:")>>),
       Cell(1, 2, <<F("policy_number", "s")>>),
       Cell(2, 1, <<L("Policy Period:")>>),
       Cell(2, 2, <<F("effective_date", "s"), L(" to "), F("expiration_date", "s")>>),
       Cell(3, 1, <<L("Insurance Company:")>>),
       Cell(3, 2, <<F("insurance_company", "s")>>),
       Cell(4, 1, <<L("Producer/Agent:")>>),
       Cell(4, 2, <<F("agent_name", "s")>>),
       Cell(5, 1, <<L("Issue Date:")>>),
       Cell(5, 2, <<F("issue_date", "s")>>),
       Spacer(20),
       P("Heading2", <<L("NAMED INSURED")>>),
       Table(5, 2),
       Cell(1, 1, <<L("Business Name:")>>),
       Cell(1, 2, <<F("business_name", "s")>>),
       Cell(2, 1, <<L("Business Address:")>>),
       Cell(2, 2, <<F("business_address", "s")>>),
       Cell(3, 1, <<L("Business Phone:")>>),
       Cell(3, 2, <<F("business_phone", "s")>>),
       Cell(4, 1, <<L("Principal Contact:")>>),
       Cell(4, 2, <<F("principal_contact", "s")>>),
       Cell(5, 1, <<L("Industry Classification:")>>),
       Cell(5, 2, <<F("industry_classification", "s")>>),
       Spacer(20),
       P("Heading2", <<L("COVERAGE DETAILS")>>),
       Table(6, 4),
       Cell(1, 1, <<L("Coverage")>>),
       Cell(1, 2, <<L("Each Occurrence")>>),
       Cell(1, 3, <<L("General Aggregate")>>),
       Cell(1, 4, <<L("Premium")>>),
       Cell(2, 1, <<L("Bodily Injury & Property Damage")>>),
       Cell(2, 2, <<L("$"), F("each_occurrence", "comma")>>),
       Cell(2, 3, <<L("$"), F("general_aggregate", "comma")>>),
       Cell(2, 4, <<L("$"), F("bd_pd_premium", "comma")>>),
       Cell(3, 1, <<L("Personal & Advertising Injury")>>),
       Cell(3, 2, <<L("$"), F("personal_injury_limit", "comma")>>),
       Cell(3, 3, <<L("Included in General Aggregate")>>),
       Cell(3, 4, <<L("$"), F("personal_injury_premium", "comma")>>),
       Cell(4, 1, <<L("Products-Completed Operations")>>),
       Cell(4, 2, <<L("$"), F("products_ops_occurrence", "comma")>>),
       Cell(4, 3, <<L("$"), F("products_ops_aggregate", "comma")>>),
       Cell(4, 4, <<L("$"), F("products_ops_premium", "comma")>>),
       Cell(5, 1, <<L("Medical Expenses")>>),
       Cell(5, 2, <<L("$"), F("medical_expenses", "comma")>>),
       Cell(5, 3, <<L("N/A")>>),
       Cell(5, 4, <<L("$"), F("medical_premium", "comma")>>),
       Cell(6, 1, <<>>),
       Cell(6, 2, <<>>),
       Cell(6, 3, <<L("Total Annual Premium:")>>),
       Cell(6, 4, <<L("$"), F("total_premium", "comma")>>),
       Spacer(20),
       P("Heading2", <<L("DEDUCTIBLES")>>),
       P("Normal", <<
               L("Per Occurrence Deductible: "), L("$"), F("deductible", "comma"),
               L(" The deductible applies to each covered occurrence. The insured is responsible for the deductible amount before coverage begins.") >>),
       Spacer(20),
       P("Heading2", <<L("KEY EXCLUSIONS")>>),
       P("Normal", <<
               L("This policy does not cover claims arising from: {bullet} Professional services (requires separate Professional Liability coverage) {bullet} Cyber/data breach incidents (requires separate Cyber Liability coverage) {bullet} Employment practices (requires separate Employment Practices Liability coverage) {bullet} Pollution incidents (requires separate Environmental coverage) {bullet} Aircraft, auto, or watercraft operations (require separate coverage) {bullet} Workers' compensation (requires separate coverage) {bullet} Intentional criminal acts This is a summary only. Please refer to the complete policy for all terms and conditions.") >>),
       Spacer(20),
       P("Heading2", <<L("CLAIMS REPORTING")>>),
       P("Normal", <<
               L("Claims should be reported immediately to: Claims Department: "),
               F("claims_phone", "s"), L(" 24-Hour Claims Hotline: "), F("claims_hotline", "s"),
               L(" Online Claims Reporting: "), F("claims_website", "s"),
               L(" Prompt reporting is essential for proper claims handling.") >>),
       Spacer(30),
       P("Footer", <<
               L("This is a sample document for testing purposes only. All information is fictional.") >>) >>

create_liability_policy(policy_data) == Render(create_liability_policy_template, policy_data)

\* generate_liability_insurance_pdfs.py, lines 407-579: the text items of the body, in order.
create_contract_document_template ==
    << P("Title", <<L("SERVICE AGREEMENT CONTRACT")>>),
       Spacer(12),
       Table(4, 2),
       Cell(1, 1, <<L("Contract Number:")>>),
       Cell(1, 2, <<F("contract_number", "s")>>),
       Cell(2, 1, <<L("Effective Date:")>>),
       Cell(2, 2, <<F("effective_date", "s")>>),
       Cell(3, 1, <<L("Contract Term:")>>),
       Cell(3, 2, <<F("contract_term", "s")>>),
       Cell(4, 1, <<L("Total Contract Value:")>>),
       Cell(4, 2, <<L("$"), F("contract_value", "comma")>>),
       Spacer(20),
       P("Heading2", <<L("CONTRACTING PARTIES")>>),
       P("Heading3", <<L("Service Provider:")>>),
       Table(5, 2),
       Cell(1, 1, <<L("Company Name:")>>),
       Cell(1, 2, <<F("provider_name", "s")>>),
       Cell(2, 1, <<L("Address:")>>),
       Cell(2, 2, <<F("provider_address", "s")>>),
       Cell(3, 1, <<L("Contact Person:")>>),
       Cell(3, 2, <<F("provider_contact", "s")>>),
       Cell(4, 1, <<L("Phone:")>>),
       Cell(4, 2, <<F("provider_phone", "s")>>),
       Cell(5, 1, <<L("Email:")>>),
       Cell(5, 2, <<F("provider_email", "s")>>),
       Spacer(10),
       P("Heading3", <<L("Client:")>>),
       Table(5, 2),
       Cell(1, 1, <<L("Company Name:")>>),
       Cell(1, 2, <<F("client_name", "s")>>),
       Cell(2, 1, <<L("Address:")>>),
       Cell(2, 2, <<F("client_address", "s")>>),
       Cell(3, 1, <<L("Contact Person:")>>),
       Cell(3, 2, <<F("client_contact", "s")>>),
       Cell(4, 1, <<L("Phone:")>>),
       Cell(4, 2, <<F("client_phone", "s")>>),
       Cell(5, 1, <<L("Email:")>>),
       Cell(5, 2, <<F("client_email", "s")>>),
       Spacer(20),
       P("Heading2", <<L("SCOPE OF WORK")>>),
       P("Normal", <<
               L("The Service Provider agrees to provide the following services: "),
               F("scope_of_work", "s"),
               L(" Services will be performed at the following location(s): "),
               F("service_location", "s"), L(" Expected completion date: "),
               F("completion_date", "s") >>),
       Spacer(20),
       P("Heading2", <<L("PAYMENT TERMS")>>),
       Table(6, 3),
       Cell(1, 1, <<L("Payment Schedule")>>),
       Cell(1, 2, <<L("Amount")>>),
       Cell(1, 3, <<L("Due Date")>>),
       Cell(2, 1, <<L("Initial Payment")>>),
       Cell(2, 2, <<L("$"), F("initial_payment", "comma")>>),
       Cell(2, 3, <<F("initial_due_date", "s")>>),
       Cell(3, 1, <<L("Progress Payment 1")>>),
       Cell(3, 2, <<L("$"), F("progress_payment_1", "comma")>>),
       Cell(3, 3, <<F("progress_due_1", "s")>>),
       Cell(4, 1, <<L("Progress Payment 2")>>),
       Cell(4, 2, <<L("$"), F("progress_payment_2", "comma")>>),
       Cell(4, 3, <<F("progress_due_2", "s")>>),
       Cell(5, 1, <<L("Final Payment")>>),
       Cell(5, 2, <<L("$"), F("final_payment", "comma")>>),
       Cell(5, 3, <<F("final_due_date", "s")>>),
       Cell(6, 1, <<L("Total Contract Value")>>),
       Cell(6, 2, <<L("$"), F("total_payments", "comma")>>),
       Cell(6, 3, <<>>),
       Spacer(20),
       P("Heading2", <<L("INSURANCE REQUIREMENTS")>>),
       P("Normal", <<
               L("The Service Provider shall maintain the following minimum insurance coverage: {bullet} General Liability: "),
               L("$"), F("required_gl_coverage", "comma"),
               L(" per occurrence {bullet} Professional Liability: "), L("$"),
               F("required_pl_coverage", "comma"),
               L(" per claim {bullet} Workers' Compensation: As required by state law {bullet} Commercial Auto: "),
               L("$"), F("required_auto_coverage", "comma"),
               L(" combined single limit The Client shall be named as an additional insured on all applicable policies. Certificates of Insurance must be provided before work commences.") >>),
       Spacer(20),
       P("Heading2", <<L("SIGNATURES")>>),
       Table(6, 4),
       Cell(1, 1, <<L("Service Provider")>>),
       Cell(1, 2, <<>>),
       Cell(1, 3, <<L("Client")>>),
       Cell(1, 4, <<>>),
       Cell(2, 1, <<>>),
       Cell(2, 2, <<>>),
       Cell(2, 3, <<>>),
       Cell(2, 4, <<>>),
       Cell(3, 1, <<L("Signature: "), U(17)>>),
       Cell(3, 2, <<L("Date: "), U(8)>>),
       Cell(3, 3, <<L("Signature: "), U(17)>>),
       Cell(3, 4, <<L("Date: "), U(8)>>),
       Cell(4, 1, <<>>),
       Cell(4, 2, <<>>),
       Cell(4, 3, <<>>),
       Cell(4, 4, <<>>),
       Cell(5, 1, <<L("Print Name: "), F("provider_signatory", "s")>>),
       Cell(5, 2, <<>>),
       Cell(5, 3, <<L("Print Name: "), F("client_signatory", "s")>>),
       Cell(5, 4, <<>>),
       Cell(6, 1, <<L("Title: "), F("provider_title", "s")>>),
       Cell(6, 2, <<>>),
       Cell(6, 3, <<L("Title: "), F("client_title", "s")>>),
       Cell(6, 4, <<>>),
       Spacer(30),
       P("Footer", <<
               L("This is a sample document for testing purposes only. All information is fictional.") >>) >>

create_contract_document(contract_data) == Render(create_contract_document_template, contract_data)

\* generate_liability_insurance_pdfs.py, lines 581-710: the text items of the body, in order.
create_risk_assessment_template ==
    << P("Title", <<L("BUSINESS RISK ASSESSMENT REPORT")>>),
       Spacer(12),
       Table(6, 2),
       Cell(1, 1, <<L("Assessment ID:")>>),
       Cell(1, 2, <<F("assessment_id", "s")>>),
       Cell(2, 1, <<L("Assessment Date:")>>),
       Cell(2, 2, <<F("assessment_date", "s")>>),
       Cell(3, 1, <<L("Conducted By:")>>),
       Cell(3, 2, <<F("assessor_name", "s")>>),
       Cell(4, 1, <<L("Company Assessed:")>>),
       Cell(4, 2, <<F("company_name", "s")>>),
       Cell(5, 1, <<L("Industry:")>>),
       Cell(5, 2, <<F("industry", "s")>>),
       Cell(6, 1, <<L("Assessment Type:")>>),
       Cell(6, 2, <<F("assessment_type", "s")>>),
       Spacer(20),
       P("Heading2", <<L("EXECUTIVE SUMMARY")>>),
       P("Normal", <<
               L("Overall Risk Rating: "), F("overall_risk_rating", "s"),
               L(" This risk assessment evaluates the potential liability exposures for "),
               F("company_name", "s"), L(". Based on our analysis, the company presents a "),
               F("overall_risk_rating", "lower"),
               L(" risk profile for general liability insurance purposes. Key areas of concern include "),
               F("key_concerns", "s"), L(" while strengths include "), F("strengths", "s"), L(".") >>),
       Spacer(20),
       P("Heading2", <<L("RISK CATEGORY ANALYSIS")>>),
       Table(7, 5),
       Cell(1, 1, <<L("Risk Category")>>),
       Cell(1, 2, <<L("Risk Level")>>),
       Cell(1, 3, <<L("Impact")>>),
       Cell(1, 4, <<L("Likelihood")>>),
       Cell(1, 5, <<L("Mitigation Measures")>>),
       Cell(2, 1, <<L("Premises Liability")>>),
       Cell(2, 2, <<F("premises_risk", "s")>>),
       Cell(2, 3, <<L("High")>>),
       Cell(2, 4, <<L("Medium")>>),
       Cell(2, 5, <<L("Regular inspections, maintenance")>>),
       Cell(3, 1, <<L("Product Liability")>>),
       Cell(3, 2, <<F("product_risk", "s")>>),
       Cell(3, 3, <<L("Medium")>>),
       Cell(3, 4, <<L("Low")>>),
       Cell(3, 5, <<L("Quality control, testing")>>),
       Cell(4, 1, <<L("Professional Liability")>>),
       Cell(4, 2, <<F("professional_risk", "s")>>),
       Cell(4, 3, <<L("High")>>),
       Cell(4, 4, <<L("Medium")>>),
       Cell(4, 5, <<L("Training, procedures")>>),
       Cell(5, 1, <<L("Cyber Security")>>),
       Cell(5, 2, <<F("cyber_risk", "s")>>),
       Cell(5, 3, <<L("High")>>),
       Cell(5, 4, <<L("High")>>),
       Cell(5, 5, <<L("Security systems, training")>>),
       Cell(6, 1, <<L("Employment Practices")>>),
       Cell(6, 2, <<F("employment_risk", "s")>>),
       Cell(6, 3, <<L("Medium")>>),
       Cell(6, 4, <<L("Low")>>),
       Cell(6, 5, <<L("HR policies, training")>>),
       Cell(7, 1, <<L("Environmental")>>),
       Cell(7, 2, <<F("environmental_risk", "s")>>),
       Cell(7, 3, <<L("Low")>>),
       Cell(7, 4, <<L("Low")>>),
       Cell(7, 5, <<L("Compliance monitoring")>>),
       Spacer(20),
       P("Heading2", <<L("RECOMMENDATIONS")>>),
       P("Normal", <<
               L("Based on this risk assessment, we recommend the following: 1. Insurance Coverage: {bullet} General Liability: "),
               L("$"), F("recommended_gl_limit", "comma"),
               L(" per occurrence {bullet} Professional Liability: "), L("$"),
               F("recommended_pl_limit", "comma"), L(" per claim {bullet} Cyber Liability: "),
               L("$"), F("recommended_cyber_limit", "comma"),
               L(" per incident 2. Risk Management Improvements: {bullet} "),
               F("improvement_1", "s"), L(" {bullet} "), F("improvement_2", "s"), L(" {bullet} "),
               F("improvement_3", "s"),
               L(" 3. Review Schedule: {bullet} Annual risk assessment review {bullet} Quarterly policy updates as needed {bullet} Immediate notification of significant business changes Implementation of these recommendations should reduce the overall risk profile and potentially lead to more favorable insurance terms.") >>),
       Spacer(20),
       P("Heading2", <<L("ASSESSOR CERTIFICATION")>>),
       P("Normal", <<
               L("This assessment was conducted in accordance with industry standard risk assessment practices. The information contained in this report is based on data provided by the client and observations made during the assessment process. Assessor: "),
               F("assessor_signature", "s"), L(" Certification: "),
               F("assessor_certification", "s"), L(" Date: "), F("signature_date", "s") >>),
       Spacer(30),
       P("Footer", <<
               L("This is a sample document for testing purposes only. All information is fictional.") >>) >>

create_risk_assessment(risk_data) == Render(create_risk_assessment_template, risk_data)
\* The renderers, by name.
Renderers ==
    { "create_vehicle_registration", "create_drivers_license",
      "create_vehicle_inspection_report", "create_insurance_policy", "create_claim_form",
      "create_property_deed", "create_building_permit", "create_fire_safety_certificate",
      "create_property_valuation", "create_construction_specifications", "create_id_card",
      "create_passport_sample", "create_proof_of_address", "create_bank_statement",
      "create_employment_letter", "create_medical_certificate", "create_business_registration",
      "create_financial_statement", "create_liability_policy", "create_contract_document",
      "create_risk_assessment" }

\* The body of renderer f.
TemplateOf(f, b) ==
    CASE f = "create_vehicle_registration" -> create_vehicle_registration_template
      [] f = "create_drivers_license" -> create_drivers_license_template
      [] f = "create_vehicle_inspection_report" -> create_vehicle_inspection_report_template
      [] f = "create_insurance_policy" -> create_insurance_policy_template
      [] f = "create_claim_form" -> create_claim_form_template(b)
      [] f = "create_property_deed" -> create_property_deed_template
      [] f = "create_building_permit" -> create_building_permit_template
      [] f = "create_fire_safety_certificate" -> create_fire_safety_certificate_template
      [] f = "create_property_valuation" -> create_property_valuation_template
      [] f = "create_construction_specifications" -> create_construction_specifications_template
      [] f = "create_id_card" -> create_id_card_template
      [] f = "create_passport_sample" -> create_passport_sample_template
      [] f = "create_proof_of_address" -> create_proof_of_address_template
      [] f = "create_bank_statement" -> create_bank_statement_template
      [] f = "create_employment_letter" -> create_employment_letter_template
      [] f = "create_medical_certificate" -> create_medical_certificate_template
      [] f = "create_business_registration" -> create_business_registration_template
      [] f = "create_financial_statement" -> create_financial_statement_template
      [] f = "create_liability_policy" -> create_liability_policy_template
      [] f = "create_contract_document" -> create_contract_document_template
      [] f = "create_risk_assessment" -> create_risk_assessment_template

\* The call f(path, rec) or, for create_claim_form, f(path, rec, b).
Apply(f, rec, b) ==
    CASE f = "create_vehicle_registration" -> create_vehicle_registration(rec)
      [] f = "create_drivers_license" -> create_drivers_license(rec)
      [] f = "create_vehicle_inspection_report" -> create_vehicle_inspection_report(rec)
      [] f = "create_insurance_policy" -> create_insurance_policy(rec)
      [] f = "create_claim_form" -> create_claim_form(rec, b)
      [] f = "create_property_deed" -> create_property_deed(rec)
      [] f = "create_building_permit" -> create_building_permit(rec)
      [] f = "create_fire_safety_certificate" -> create_fire_safety_certificate(rec)
      [] f = "create_property_valuation" -> create_property_valuation(rec)
      [] f = "create_construction_specifications" -> create_construction_specifications(rec)
      [] f = "create_id_card" -> create_id_card(rec)
      [] f = "create_passport_sample" -> create_passport_sample(rec)
      [] f = "create_proof_of_address" -> create_proof_of_address(rec)
      [] f = "create_bank_statement" -> create_bank_statement(rec)
      [] f = "create_employment_letter" -> create_employment_letter(rec)
      [] f = "create_medical_certificate" -> create_medical_certificate(rec)
      [] f = "create_business_registration" -> create_business_registration(rec)
      [] f = "create_financial_statement" -> create_financial_statement(rec)
      [] f = "create_liability_policy" -> create_liability_policy(rec)
      [] f = "create_contract_document" -> create_contract_document(rec)
      [] f = "create_risk_assessment" -> create_risk_assessment(rec)
---------------------------------------------------------------------------
(* The batch drivers: their literal sample dicts and their render calls *)

\* One call statement f(path, rec) or f(path, rec, blank) of a driver; dir is
\* the directory part of path.
Call(f, dir, path, rec, b) ==
    [fn |-> f, dir |-> dir, path |-> path, rec |-> rec, blank |-> b]

\* -------- src/generate_test_pdfs.py --------

\* generate_test_pdfs.py, lines 460-475
vehicle_data_1 ==
    [ doc_number |-> "REG-2024-001234", issue_date |-> "2024-03-15",
      reg_number |-> "ABC-123-DE", make |-> "Toyota", model |-> "Camry", year |-> "2022",
      engine_number |-> "ENG789456123", chassis_number |-> "CHS456789012", color |-> "Silver",
      fuel_type |-> "Gasoline", owner_name |-> "John Michael Smith",
      owner_address |-> "123 Main Street, Springfield, IL 62701", owner_id |-> "ID123456789",
      owner_phone |-> "(555) 123-4567" ]

\* generate_test_pdfs.py, lines 477-492
vehicle_data_2 ==
    [ doc_number |-> "REG-2024-005678", issue_date |-> "2024-01-22",
      reg_number |-> "XYZ-789-FG", make |-> "Honda", model |-> "Civic", year |-> "2023",
      engine_number |-> "ENG321654987", chassis_number |-> "CHS987654321", color |-> "Blue",
      fuel_type |-> "Gasoline", owner_name |-> "Sarah Elizabeth Johnson",
      owner_address |-> "456 Oak Avenue, Chicago, IL 60601", owner_id |-> "ID987654321",
      owner_phone |-> "(555) 987-6543" ]

\* generate_test_pdfs.py, lines 494-502
driver_data_1 ==
    [ license_number |-> "DL123456789", license_class |-> "Class C",
      expiry_date |-> "2027-05-15", full_name |-> "John Michael Smith",
      date_of_birth |-> "1985-08-22", address |-> "123 Main Street, Springfield, IL",
      restrictions |-> <<"CORRECTIVE LENSES">> ]

\* generate_test_pdfs.py, lines 504-512
driver_data_2 ==
    [ license_number |-> "DL987654321", license_class |-> "Class C",
      expiry_date |-> "2026-11-30", full_name |-> "Sarah Elizabeth Johnson",
      date_of_birth |-> "1990-03-10", address |-> "456 Oak Avenue, Chicago, IL",
      restrictions |-> <<"NONE">> ]

\* generate_test_pdfs.py, lines 514-527
inspection_data ==
    [ inspection_date |-> "2024-08-15", inspector_name |-> "Robert Wilson",
      inspector_license |-> "INS-54321", station_name |-> "Central Auto Inspection Station",
      certificate_number |-> "CERT-2024-789", reg_number |-> "ABC-123-DE", make |-> "Toyota",
      model |-> "Camry", year |-> "2022", mileage |-> "25,485", vin |-> "1HGCM82633A123456",
      result |-> "PASS" ]

\* generate_test_pdfs.py, lines 529-547
motor_policy_data ==
    [ policy_number |-> "POL-2024-567890", start_date |-> "2024-01-01",
      end_date |-> "2024-12-31", company_name |-> "Sample Insurance Company",
      agent_name |-> "Michael Thompson", issue_date |-> "2023-12-15",
      insured_name |-> "John Michael Smith",
      insured_address |-> "123 Main Street, Springfield, IL 62701",
      insured_phone |-> "(555) 123-4567", insured_email |-> "john.smith@email.com",
      license_number |-> "DL123456789", vehicle_year |-> "2022", vehicle_make |-> "Toyota",
      vehicle_model |-> "Camry", vehicle_vin |-> "1HGCM82633A123456",
      license_plate |-> "ABC-123-DE", vehicle_use |-> "Personal" ]

\* generate_test_pdfs.py, lines 549-566
claim_data ==
    [ claim_number |-> "CLM-2024-001234", report_date |-> "2024-09-10",
      policy_number |-> "POL-2024-567890", insured_name |-> "John Michael Smith",
      phone |-> "(555) 123-4567", email |-> "john.smith@email.com", loss_date |-> "2024-09-08",
      loss_time |-> "2:30 PM",
      location |-> "Intersection of Main St and Oak Ave, Springfield, IL",
      description |-> "Rear-end collision at traffic light. Other driver failed to stop.",
      vehicle |-> "2022 Toyota Camry", license_plate |-> "ABC-123-DE",
      vin |-> "1HGCM82633A123456", estimated_damage |-> "3,500", signature |-> "John M. Smith",
      signature_date |-> "2024-09-10" ]

\* The same calls with is_blank left out of the last one.
generate_motor_insurance_docs_flag_missing ==
    << Call("create_vehicle_registration", "test-documents/motor-insurance",
            "test-documents/motor-insurance/vehicle_registration_1.pdf",
            vehicle_data_1, FALSE),
       Call("create_vehicle_registration", "test-documents/motor-insurance",
            "test-documents/motor-insurance/vehicle_registration_2.pdf",
            vehicle_data_2, FALSE),
       Call("create_drivers_license", "test-documents/motor-insurance",
            "test-documents/motor-insurance/drivers_license_1.pdf",
            driver_data_1, FALSE),
       Call("create_drivers_license", "test-documents/motor-insurance",
            "test-documents/motor-insurance/drivers_license_2.pdf",
            driver_data_2, FALSE),
       Call("create_vehicle_inspection_report", "test-documents/motor-insurance",
            "test-documents/motor-insurance/vehicle_inspection_report.pdf",
            inspection_data, FALSE),
       Call("create_insurance_policy", "test-documents/motor-insurance",
            "test-documents/motor-insurance/insurance_policy.pdf",
            motor_policy_data, FALSE),
       Call("create_claim_form", "test-documents/motor-insurance",
            "test-documents/motor-insurance/claim_form_completed.pdf",
            claim_data, FALSE),
       Call("create_claim_form", "test-documents/motor-insurance",
            "test-documents/motor-insurance/claim_form_blank.pdf",
            << >>, FALSE) >>

\* generate_test_pdfs.py, lines 569-576: the render calls of generate_motor_insurance_docs, in order.
generate_motor_insurance_docs ==
    << Call("create_vehicle_registration", "test-documents/motor-insurance",
            "test-documents/motor-insurance/vehicle_registration_1.pdf",
            vehicle_data_1, FALSE),
       Call("create_vehicle_registration", "test-documents/motor-insurance",
            "test-documents/motor-insurance/vehicle_registration_2.pdf",
            vehicle_data_2, FALSE),
       Call("create_drivers_license", "test-documents/motor-insurance",
            "test-documents/motor-insurance/drivers_license_1.pdf",
            driver_data_1, FALSE),
       Call("create_drivers_license", "test-documents/motor-insurance",
            "test-documents/motor-insurance/drivers_license_2.pdf",
            driver_data_2, FALSE),
       Call("create_vehicle_inspection_report", "test-documents/motor-insurance",
            "test-documents/motor-insurance/vehicle_inspection_report.pdf",
            inspection_data, FALSE),
       Call("create_insurance_policy", "test-documents/motor-insurance",
            "test-documents/motor-insurance/insurance_policy.pdf",
            motor_policy_data, FALSE),
       Call("create_claim_form", "test-documents/motor-insurance",
            "test-documents/motor-insurance/claim_form_completed.pdf",
            claim_data, FALSE),
       Call("create_claim_form", "test-documents/motor-insurance",
            "test-documents/motor-insurance/claim_form_blank.pdf",
            << >>, TRUE) >>

\* -------- src/generate_fire_insurance_pdfs.py --------

\* generate_fire_insurance_pdfs.py, lines 585-605
property_data ==
    [ deed_number |-> "DEED-2024-789456", recording_date |-> "2024-02-15",
      county |-> "Cook County, Illinois",
      legal_description |-> "Lot 15, Block 3, Meadowbrook Subdivision, as recorded in Plat Book 45, Page 123",
      street_address |-> "789 Maple Drive", city |-> "Springfield", state |-> "Illinois",
      zip_code |-> "62704", parcel_id |-> "PIN-456-789-012", lot_size |-> 8500,
      current_owner |-> "Robert and Linda Wilson", previous_owner |-> "Thomas Anderson",
      transfer_date |-> "2024-02-10", purchase_price |-> 485000,
      property_type |-> "Single Family Residence",
      encumbrances |-> <<"Mortgage to First National Bank - $350,000", "Utility easement - 10 ft rear yard">> ]

\* generate_fire_insurance_pdfs.py, lines 607-632
permit_data ==
    [ permit_number |-> "BP-2024-5678", issue_date |-> "2024-06-01",
      expiration_date |-> "2025-06-01",
      property_address |-> "789 Maple Drive, Springfield, IL 62704",
      parcel_number |-> "PIN-456-789-012", zoning |-> "R-1 Single Family Residential",
      property_owner |-> "Robert and Linda Wilson", owner_phone |-> "(555) 234-5678",
      work_description |-> "Two-story addition with family room and master bedroom",
      construction_type |-> "Type V - Wood Frame", estimated_cost |-> 85000,
      square_footage |-> 750, stories |-> "2", contractor_name |-> "Superior Construction LLC",
      contractor_license |-> "CON-789456", contractor_phone |-> "(555) 345-6789",
      contractor_address |-> "123 Builder Lane, Springfield, IL",
      approvals |-> <<"Building Department Review", "Fire Department Review", "Electrical Permit", "Plumbing Permit", "HVAC Permit">> ]

\* generate_fire_insurance_pdfs.py, lines 634-655
safety_data ==
    [ certificate_number |-> "FSC-2024-3456", issue_date |-> "2024-07-20",
      expiration_date |-> "2025-07-20", issuing_authority |-> "Springfield Fire Department",
      inspector_name |-> "Captain James Rodriguez",
      property_address |-> "789 Maple Drive, Springfield, IL 62704",
      building_type |-> "Single Family Residence",
      occupancy_type |-> "Residential - Single Family", floor_area |-> 2850,
      number_of_floors |-> "2", inspection_date |-> "2024-07-18",
      alarm_test_date |-> "2024-07-18", sprinkler_test_date |-> "N/A - Not Required",
      exit_test_date |-> "2024-07-18", extinguisher_test_date |-> "2024-07-18",
      lighting_test_date |-> "2024-07-18", door_test_date |-> "2024-07-18",
      marshal_signature |-> "Captain J. Rodriguez", signature_date |-> "2024-07-20",
      badge_number |-> "FD-4567" ]

\* generate_fire_insurance_pdfs.py, lines 657-684
valuation_data ==
    [ report_number |-> "APR-2024-7890", valuation_date |-> "2024-08-01",
      report_date |-> "2024-08-05", appraiser_name |-> "Michelle Thompson, MAI",
      appraiser_license |-> "CRA-5678", purpose |-> "Insurance Coverage Determination",
      property_address |-> "789 Maple Drive, Springfield, IL 62704",
      legal_description |-> "Lot 15, Block 3, Meadowbrook Subdivision",
      property_type |-> "Single Family Residence", year_built |-> "2018", living_area |-> 2850,
      lot_size |-> 8500, bedrooms |-> "4", bathrooms |-> "3.5", sales_comparison |-> 495000,
      cost_approach |-> 485000, income_approach |-> 490000, final_value |-> 492000,
      market_conditions |-> "stable", low_comp |-> 450000, high_comp |-> 525000,
      market_trend |-> "slightly increasing", market_activity |-> "moderate",
      days_on_market |-> 35, appraiser_signature |-> "Michelle Thompson, MAI",
      signature_date |-> "2024-08-05" ]

\* generate_fire_insurance_pdfs.py, lines 686-693
construction_data ==
    [ project_name |-> "Wilson Residence Addition",
      project_address |-> "789 Maple Drive, Springfield, IL 62704",
      architect |-> "Johnson Architecture & Design", contractor |-> "Superior Construction LLC",
      project_manager |-> "David Martinez", spec_date |-> "2024-05-15" ]

\* The same calls with the permit written to the path of the deed.
generate_fire_insurance_docs_same_path ==
    << Call("create_property_deed", "test-documents/fire-insurance",
            "test-documents/fire-insurance/property_deed.pdf",
            property_data, FALSE),
       Call("create_building_permit", "test-documents/fire-insurance",
            "test-documents/fire-insurance/property_deed.pdf",
            permit_data, FALSE),
       Call("create_fire_safety_certificate", "test-documents/fire-insurance",
            "test-documents/fire-insurance/fire_safety_certificate.pdf",
            safety_data, FALSE),
       Call("create_property_valuation", "test-documents/fire-insurance",
            "test-documents/fire-insurance/property_valuation_report.pdf",
            valuation_data, FALSE),
       Call("create_construction_specifications", "test-documents/fire-insurance",
            "test-documents/fire-insurance/construction_specifications.pdf",
            construction_data, FALSE) >>

\* generate_fire_insurance_pdfs.py, lines 696-700: the render calls of generate_fire_insurance_docs, in order.
generate_fire_insurance_docs ==
    << Call("create_property_deed", "test-documents/fire-insurance",
            "test-documents/fire-insurance/property_deed.pdf",
            property_data, FALSE),
       Call("create_building_permit", "test-documents/fire-insurance",
            "test-documents/fire-insurance/building_permit.pdf",
            permit_data, FALSE),
       Call("create_fire_safety_certificate", "test-documents/fire-insurance",
            "test-documents/fire-insurance/fire_safety_certificate.pdf",
            safety_data, FALSE),
       Call("create_property_valuation", "test-documents/fire-insurance",
            "test-documents/fire-insurance/property_valuation_report.pdf",
            valuation_data, FALSE),
       Call("create_construction_specifications", "test-documents/fire-insurance",
            "test-documents/fire-insurance/construction_specifications.pdf",
            construction_data, FALSE) >>

\* -------- src/generate_general_forms_pdfs.py --------

\* generate_general_forms_pdfs.py, lines 561-568
id_data ==
    [ id_number |-> "ID-789456123", issue_date |-> "2022-01-15", expiry_date |-> "2027-01-15",
      name_redacted |-> "XXXXXXX XXXXXXX", dob_redacted |-> "XX/XX/XXXX",
      address_redacted |-> "XXX XXXXXXX ST, XXXXXXX, XX XXXXX" ]

\* generate_general_forms_pdfs.py, lines 570-581
passport_data ==
    [ passport_number |-> "XXXXXXXXX", passport_type |-> "P", issue_date |-> "15 JAN 22",
      expiry_date |-> "14 JAN 32", surname_redacted |-> "XXXXXXX",
      given_names_redacted |-> "XXXXXXX XXXXXXX", nationality |-> "USA",
      dob_redacted |-> "XX XXX XX", pob_redacted |-> "XXXXXXX, XX, USA", sex_redacted |-> "X" ]

\* generate_general_forms_pdfs.py, lines 583-606
address_data ==
    [ account_number |-> "UTIL-789456",
      service_address |-> "123 Main Street, Springfield, IL 62701",
      billing_start |-> "2024-08-01", billing_end |-> "2024-08-31", bill_date |-> "2024-09-01",
      due_date |-> "2024-09-25", customer_name |-> "John M. Smith",
      billing_address |-> "123 Main Street, Springfield, IL 62701",
      account_type |-> "Residential", service_type |-> "Electric, Gas, Water",
      kwh_usage |-> 1245, kwh_rate |-> 1235, electric_charge |-> 1537600, gas_usage |-> 45,
      gas_rate |-> 8950, gas_charge |-> 402800, water_usage |-> 5680, water_rate |-> 89,
      water_charge |-> 505500, service_fee |-> 250000, taxes |-> 271800, total_due |-> 2967700 ]

\* The same dict with the beginning balance left in ending_balance.
bank_data_stale_balance ==
    [ account_holder |-> "John M. Smith", account_number_redacted |-> "XXXX-XXXX-XXXX-5678",
      account_type |-> "Personal Checking", statement_start |-> "2024-08-01",
      statement_end |-> "2024-08-31", statement_date |-> "2024-09-01",
      beginning_balance |-> 28475200, total_deposits |-> 42500000,
      total_withdrawals |-> 21956700, service_charges |-> 150000, interest_earned |-> 21500,
      ending_balance |-> 28475200 ]

\* generate_general_forms_pdfs.py, lines 608-621
bank_data ==
    [ account_holder |-> "John M. Smith", account_number_redacted |-> "XXXX-XXXX-XXXX-5678",
      account_type |-> "Personal Checking", statement_start |-> "2024-08-01",
      statement_end |-> "2024-08-31", statement_date |-> "2024-09-01",
      beginning_balance |-> 28475200, total_deposits |-> 42500000,
      total_withdrawals |-> 21956700, service_charges |-> 150000, interest_earned |-> 21500,
      ending_balance |-> 48890000 ]

\* generate_general_forms_pdfs.py, lines 623-638
employment_data ==
    [ letter_date |-> "2024-09-15", employee_name |-> "Jennifer Martinez",
      employee_id |-> "EMP-5678", position |-> "Senior Software Engineer",
      department |-> "Information Technology",
      employment_status |-> "Full-Time Regular Employee", start_date |-> "2021-03-15",
      current_status |-> "Active as of this letter date", annual_salary |-> 95000,
      pay_frequency |-> "Bi-weekly", employment_type |-> "Full-Time Exempt",
      standard_hours |-> 40, work_location |-> "Chicago, IL Office with Remote Work Options",
      performance_note |-> "excellent technical skills and professional conduct" ]

\* generate_general_forms_pdfs.py, lines 640-666
medical_data ==
    [ certificate_number |-> "MED-CERT-789456", issue_date |-> "2024-09-18",
      physician_name |-> "Dr. Emily Rodriguez", physician_license |-> "MD-123456",
      physician_specialty |-> "Family Medicine", patient_name |-> "Michael Thompson",
      patient_dob |-> "1985-06-22", patient_id |-> "PAT-456789",
      examination_date |-> "2024-09-15",
      chief_complaint |-> "Follow-up examination after minor motor vehicle accident",
      history_present_illness |-> "Patient was involved in a minor rear-end collision on 2024-09-10. Reports mild neck soreness and headache for 2-3 days following incident. No loss of consciousness. Symptoms improving.",
      blood_pressure |-> "128/78", heart_rate |-> "72", temperature |-> "98.6",
      respiratory_rate |-> "16",
      general_appearance |-> "Alert, well-appearing, no acute distress",
      relevant_findings |-> "Mild cervical muscle tenderness, full range of motion. No neurological deficits.",
      diagnostic_tests |-> "Cervical spine X-rays performed - no fractures or acute abnormalities detected",
      diagnosis |-> "Cervical strain (ICD-10: S13.4), Post-concussion symptoms, mild (ICD-10: F07.81)",
      treatment |-> "NSAIDs for pain management, muscle relaxants as needed, physical therapy referral",
      restrictions |-> "May return to regular activities. Avoid heavy lifting (>20 lbs) for 1 week. Cleared for work with standard duties.",
      followup |-> "Follow-up in 2 weeks if symptoms persist. Return sooner if symptoms worsen.",
      physician_signature |-> "Emily Rodriguez, MD", signature_date |-> "2024-09-18",
      physician_credentials |-> "MD, FAAFP" ]

\* generate_general_forms_pdfs.py, lines 669-674: the render calls of generate_general_forms_docs, in order.
generate_general_forms_docs ==
    << Call("create_id_card", "test-documents/general-forms",
            "test-documents/general-forms/sample_id_card_redacted.pdf",
            id_data, FALSE),
       Call("create_passport_sample", "test-documents/general-forms",
            "test-documents/general-forms/sample_passport_redacted.pdf",
            passport_data, FALSE),
       Call("create_proof_of_address", "test-documents/general-forms",
            "test-documents/general-forms/proof_of_address_utility_bill.pdf",
            address_data, FALSE),
       Call("create_bank_statement", "test-documents/general-forms",
            "test-documents/general-forms/bank_statement_sample.pdf",
            bank_data, FALSE),
       Call("create_employment_letter", "test-documents/general-forms",
            "test-documents/general-forms/employment_verification_letter.pdf",
            employment_data, FALSE),
       Call("create_medical_certificate", "test-documents/general-forms",
            "test-documents/general-forms/medical_certificate.pdf",
            medical_data, FALSE) >>

\* -------- src/generate_liability_insurance_pdfs.py --------

\* generate_liability_insurance_pdfs.py, lines 715-742
business_data ==
    [ registration_number |-> "BRN-2024-456789", issue_date |-> "2024-01-15",
      expiration_date |-> "2025-01-15", business_name |-> "TechSolutions Consulting LLC",
      dba_name |-> "TechSolutions", business_type |-> "Limited Liability Company",
      industry |-> "Information Technology Services", federal_ein |-> "12-3456789",
      state_tax_id |-> "ST-789456123", street_address |-> "456 Innovation Drive, Suite 200",
      city |-> "Chicago", state |-> "Illinois", zip_code |-> "60601",
      phone |-> "(312) 555-0123", email |-> "info@techsolutions.com",
      principal_owner |-> "Jennifer Martinez", owner_title |-> "Managing Member",
      ownership_percentage |-> "75%", owner_address |-> "123 Elm Street, Chicago, IL 60602",
      activities |-> <<"Software development and consulting", "IT infrastructure design and implementation", "Cybersecurity consulting", "Data analytics and business intelligence", "Cloud computing services">> ]

\* generate_liability_insurance_pdfs.py, lines 744-784
financial_data ==
    [ company_name |-> "TechSolutions Consulting LLC", period_start |-> "2024-01-01",
      period_end |-> "2024-12-31", statement_date |-> "2024-12-31",
      prepared_by |-> "Johnson & Associates CPA", cpa_firm |-> "Johnson & Associates CPA",
      cash |-> 125000, accounts_receivable |-> 85000, inventory |-> 15000,
      prepaid_expenses |-> 12000, total_current_assets |-> 237000, ppe |-> 95000,
      accumulated_depreciation |-> 28000, net_fixed_assets |-> 67000, total_assets |-> 304000,
      accounts_payable |-> 45000, accrued_expenses |-> 22000, short_term_debt |-> 18000,
      total_current_liabilities |-> 85000, long_term_debt |-> 45000,
      total_liabilities |-> 130000, common_stock |-> 50000, retained_earnings |-> 124000,
      total_equity |-> 174000, total_liab_equity |-> 304000, revenue |-> 850000,
      cogs |-> 425000, gross_profit |-> 425000, salaries |-> 245000, rent_utilities |-> 48000,
      marketing |-> 25000, professional_services |-> 15000, other_expenses |-> 32000,
      total_operating_expenses |-> 365000, operating_income |-> 60000,
      interest_expense |-> 5000, income_before_taxes |-> 55000, tax_expense |-> 12000,
      net_income |-> 43000 ]

\* generate_liability_insurance_pdfs.py, lines 786-813
liability_policy_data ==
    [ policy_number |-> "GL-2024-789012", effective_date |-> "2024-01-01",
      expiration_date |-> "2024-12-31",
      insurance_company |-> "Metropolitan Business Insurance Co.",
      agent_name |-> "Sarah Thompson, CIC", issue_date |-> "2023-12-15",
      business_name |-> "TechSolutions Consulting LLC",
      business_address |-> "456 Innovation Drive, Suite 200, Chicago, IL 60601",
      business_phone |-> "(312) 555-0123", principal_contact |-> "Jennifer Martinez",
      industry_classification |-> "Computer Systems Design Services",
      each_occurrence |-> 1000000, general_aggregate |-> 2000000,
      personal_injury_limit |-> 1000000, products_ops_occurrence |-> 1000000,
      products_ops_aggregate |-> 2000000, medical_expenses |-> 5000, bd_pd_premium |-> 2850,
      personal_injury_premium |-> 450, products_ops_premium |-> 675, medical_premium |-> 125,
      total_premium |-> 4100, deductible |-> 2500, claims_phone |-> "(800) 555-CLAIM",
      claims_hotline |-> "(800) 555-2524", claims_website |-> "www.metrobusiness.com/claims" ]

\* generate_liability_insurance_pdfs.py, lines 815-854
contract_data ==
    [ contract_number |-> "SA-2024-3456", effective_date |-> "2024-09-01",
      contract_term |-> "12 months", contract_value |-> 125000,
      provider_name |-> "TechSolutions Consulting LLC",
      provider_address |-> "456 Innovation Drive, Suite 200, Chicago, IL 60601",
      provider_contact |-> "Jennifer Martinez", provider_phone |-> "(312) 555-0123",
      provider_email |-> "jennifer@techsolutions.com",
      client_name |-> "Global Manufacturing Corp",
      client_address |-> "789 Industrial Blvd, Springfield, IL 62701",
      client_contact |-> "Robert Johnson", client_phone |-> "(217) 555-7890",
      client_email |-> "rjohnson@globalmanufacturing.com",
      scope_of_work |-> "Implementation of comprehensive ERP system including: {bullet} System analysis and requirements gathering {bullet} Software configuration and customization {bullet} Data migration from legacy systems {bullet} User training and documentation {bullet} Go-live support and warranty period",
      service_location |-> "Client facilities at 789 Industrial Blvd, Springfield, IL 62701",
      completion_date |-> "2025-02-28", initial_payment |-> 31250,
      initial_due_date |-> "2024-09-15", progress_payment_1 |-> 37500,
      progress_due_1 |-> "2024-11-30", progress_payment_2 |-> 37500,
      progress_due_2 |-> "2025-01-31", final_payment |-> 18750, final_due_date |-> "2025-03-15",
      total_payments |-> 125000, required_gl_coverage |-> 1000000,
      required_pl_coverage |-> 1000000, required_auto_coverage |-> 500000,
      provider_signatory |-> "Jennifer Martinez", provider_title |-> "Managing Member",
      client_signatory |-> "Robert Johnson", client_title |-> "IT Director" ]

\* generate_liability_insurance_pdfs.py, lines 856-881
risk_data ==
    [ assessment_id |-> "RA-2024-7890", assessment_date |-> "2024-08-15",
      assessor_name |-> "Michael Davis, ARM", company_name |-> "TechSolutions Consulting LLC",
      industry |-> "Information Technology Services",
      assessment_type |-> "Comprehensive Liability Risk Assessment",
      overall_risk_rating |-> "MODERATE",
      key_concerns |-> "cyber security exposures and professional liability risks",
      strengths |-> "strong financial position and established risk management procedures",
      premises_risk |-> "Low", product_risk |-> "Medium", professional_risk |-> "High",
      cyber_risk |-> "High", employment_risk |-> "Low", environmental_risk |-> "Low",
      recommended_gl_limit |-> 1000000, recommended_pl_limit |-> 2000000,
      recommended_cyber_limit |-> 1000000,
      improvement_1 |-> "Implement formal cybersecurity training program",
      improvement_2 |-> "Establish written professional services standards",
      improvement_3 |-> "Regular third-party security assessments",
      assessor_signature |-> "Michael Davis, ARM",
      assessor_certification |-> "Associate in Risk Management (ARM)",
      signature_date |-> "2024-08-20" ]

\* The same calls with the first two exchanged.
generate_liability_insurance_docs_reordered ==
    << Call("create_financial_statement", "test-documents/liability-insurance",
            "test-documents/liability-insurance/financial_statement.pdf",
            financial_data, FALSE),
       Call("create_business_registration", "test-documents/liability-insurance",
            "test-documents/liability-insurance/business_registration_certificate.pdf",
            business_data, FALSE),
       Call("create_liability_policy", "test-documents/liability-insurance",
            "test-documents/liability-insurance/liability_insurance_policy.pdf",
            liability_policy_data, FALSE),
       Call("create_contract_document", "test-documents/liability-insurance",
            "test-documents/liability-insurance/service_contract.pdf",
            contract_data, FALSE),
       Call("create_risk_assessment", "test-documents/liability-insurance",
            "test-documents/liability-insurance/risk_assessment_report.pdf",
            risk_data, FALSE) >>

\* generate_liability_insurance_pdfs.py, lines 884-888: the render calls of generate_liability_insurance_docs, in order.
generate_liability_insurance_docs ==
    << Call("create_business_registration", "test-documents/liability-insurance",
            "test-documents/liability-insurance/business_registration_certificate.pdf",
            business_data, FALSE),
       Call("create_financial_statement", "test-documents/liability-insurance",
            "test-documents/liability-insurance/financial_statement.pdf",
            financial_data, FALSE),
       Call("create_liability_policy", "test-documents/liability-insurance",
            "test-documents/liability-insurance/liability_insurance_policy.pdf",
            liability_policy_data, FALSE),
       Call("create_contract_document", "test-documents/liability-insurance",
            "test-documents/liability-insurance/service_contract.pdf",
            contract_data, FALSE),
       Call("create_risk_assessment", "test-documents/liability-insurance",
            "test-documents/liability-insurance/risk_assessment_report.pdf",
            risk_data, FALSE) >>
\* The drivers, by name, and the calls of driver d.
Drivers ==
    { "generate_motor_insurance_docs", "generate_fire_insurance_docs",
      "generate_general_forms_docs", "generate_liability_insurance_docs" }

Calls(d) ==
    CASE d = "generate_motor_insurance_docs" -> generate_motor_insurance_docs
      [] d = "generate_fire_insurance_docs" -> generate_fire_insurance_docs
      [] d = "generate_general_forms_docs" -> generate_general_forms_docs
      [] d = "generate_liability_insurance_docs" -> generate_liability_insurance_docs

---------------------------------------------------------------------------
(* Calling one renderer: SpecRender *)

\* Entries tried in an optional list field.
Entries == { "FIRST ENTRY", "SECOND ENTRY" }

\* The lists tried: every list of at most MaxListLen entries, and one long
\* list.
Lists ==
    UNION { [1..n -> Entries] : n \in 0..MaxListLen }
        \cup { [i \in 1..LongListLen |-> "FIRST ENTRY"] }

\* The ints tried in a field printed with "," or as it is.
IntAmounts == { 0, 999, 1000, 485000, 1234567 }

\* The floats tried in a field printed with ".2f" or ".4f", in 1/10^4:
\* 0.5, 999.99, 1234.56, 1234.5601 and 100000.5.
FloatAmounts == { 5000, 9999900, 12345600, 12345601, 1000005000 }

\* The sample dict a driver passes to renderer f (the first one, and for
\* create_claim_form the filled one).
Sample(f) ==
    LET d == CHOOSE d \in Drivers : \E i \in 1..Len(Calls(d)) : Calls(d)[i].fn = f
        i == CHOOSE i \in 1..Len(Calls(d)) :
                 /\ Calls(d)[i].fn = f
                 /\ \A j \in 1..(i - 1) : Calls(d)[j].fn # f
    IN  Calls(d)[i].rec

\* rec with key k deleted, and rec with rec[k] = v.
Remove(rec, k) == [f \in DOMAIN rec \ {k} |-> rec[f]]
With(rec, k, v) == [f \in DOMAIN rec \cup {k} |-> IF f = k THEN v ELSE rec[f]]

\* The replacement fields of a template.
FieldParts(template) ==
    { p \in UNION { { template[i].parts[j] : j \in 1..Len(template[i].parts) } :
                      i \in 1..Len(template) } : p.t = "fld" }

\* The fields a template reads by subscript, the list fields it reads with
\* .get(), and the fields it prints as numbers.
SubscriptFields(template) == { p.f : p \in FieldParts(template) }
ListFields(template) ==
    { template[i].f : i \in { j \in 1..Len(template) : template[j].blk = "foreach" } }
IntFields(template) ==
    { p.f : p \in { q \in FieldParts(template) : q.fmt \in { "d", "comma", "w60", "w25", "w15" } } }
FloatFields(template) ==
    { p.f : p \in { q \in FieldParts(template) : q.fmt \in { "f2", "f4" } } }

StringFields(template) ==
    { p.f : p \in { q \in FieldParts(template) : q.fmt \in { "s", "lower" } } }

\* The strings tried in a field printed as it is (or in lower case).
Strings == { "", "HIGH" }

\* The dicts tried on renderer f: what is done to the sample dict.
Variant(kind, key, val) == [kind |-> kind, key |-> key, val |-> val]
Variants(f) ==
    LET t == TemplateOf(f, FALSE)
    IN  { Variant("sample", "", << >>), Variant("empty", "", << >>) }
        \cup { Variant("remove", k, << >>) : k \in DOMAIN Sample(f) }
        \cup { Variant("list", k, l) : k \in ListFields(t), l \in Lists }
        \cup { Variant("int", k, << n >>) : k \in IntFields(t), n \in IntAmounts }
        \cup { Variant("float", k, << n >>) : k \in FloatFields(t), n \in FloatAmounts }
        \cup { Variant("string", k, << s >>) : k \in StringFields(t), s \in Strings }

Input(f, v) ==
    CASE v.kind = "sample" -> Sample(f)
      [] v.kind = "empty" -> [k \in {} |-> ""]
      [] v.kind = "remove" -> Remove(Sample(f), v.key)
      [] v.kind = "list" -> With(Sample(f), v.key, v.val)
      [] v.kind \in { "int", "float", "string" } -> With(Sample(f), v.key, v.val[1])

NoResult == [ok |-> TRUE, key |-> "", out |-> << >>]

InitRender ==
    /\ fn = ""
    /\ data = [k \in {} |-> ""]
    /\ blank = FALSE
    /\ result = NoResult
    /\ dirs = {}
    /\ unwritable = {}
    /\ files = {}
    /\ attempts = [p \in {} |-> 0]
    /\ outcome = [p \in {} |-> ""]
    /\ pc = [d \in {} |-> 0]
    /\ status = [d \in {} |-> ""]

\* A call f(path, rec) of a renderer, up to the document it hands over.
Invoke ==
    /\ fn = ""
    /\ \E f \in Renderers, b \in BOOLEAN :
         /\ b => f = "create_claim_form"
         /\ \E v \in Variants(f) :
              /\ fn' = f
              /\ blank' = b
              /\ data' = Input(f, v)
              /\ result' = Apply(f, Input(f, v), b)
    /\ UNCHANGED driver_vars

\* The call has returned (or raised); the harness is ready for the next one.
Return ==
    /\ fn # ""
    /\ fn' = ""
    /\ data' = [k \in {} |-> ""]
    /\ blank' = FALSE
    /\ result' = NoResult
    /\ UNCHANGED driver_vars

NextRender == Invoke \/ Return

SpecRender == InitRender /\ [][NextRender]_vars

---------------------------------------------------------------------------
(* Running the batch drivers: Spec *)

\* The category directories and the output paths the drivers name.
Dirs == UNION { { Calls(d)[i].dir : i \in 1..Len(Calls(d)) } : d \in Drivers }
Paths == UNION { { Calls(d)[i].path : i \in 1..Len(Calls(d)) } : d \in Drivers }

\* Whether call i of driver d gets as far as c.save() or doc.build(): the
\* dicts are literals, so this is the same in every run.
Prepares ==
    [d \in Drivers |->
        [i \in 1..Len(Calls(d)) |->
            Apply(Calls(d)[i].fn, Calls(d)[i].rec, Calls(d)[i].blank).ok]]

\* How call i of driver d would end if the renderers wrote through a scratch
\* file they share: the call fails while another driver is running.
Outcome_shared(d, i) ==
    IF ~Prepares[d][i] THEN "KeyError"
    ELSE IF \/ Calls(d)[i].dir \notin dirs
            \/ Calls(d)[i].path \in unwritable
            \/ \E e \in Drivers \ { d } : status[e] = "running"
         THEN "IOError"
    ELSE "ok"

\* How it would end if the renderers opened the path for exclusive creation:
\* the call fails when the file is there.
Outcome_exclusive(d, i) ==
    IF ~Prepares[d][i] THEN "KeyError"
    ELSE IF \/ Calls(d)[i].dir \notin dirs
            \/ Calls(d)[i].path \in unwritable
            \/ Calls(d)[i].path \in files
         THEN "IOError"
    ELSE "ok"

\* How call i of driver d ends: the renderer raises KeyError before it
\* writes, or c.save() / doc.build() open the path for writing, which fails
\* when the directory is missing or the path may not be written.
Outcome(d, i) ==
    IF ~Prepares[d][i] THEN "KeyError"
    ELSE IF Calls(d)[i].dir \notin dirs \/ Calls(d)[i].path \in unwritable THEN "IOError"
    ELSE "ok"

\* Where a driver stands after its call k: the calls are plain statements,
\* one after the other, with no try around them, so an exception ends the
\* driver (and the process) at call k.
AfterCall_continuing(ok, k) == [pc |-> k + 1, status |-> "running"]

\* Where it would stand were the statement after a call that returned
\* passed over.
AfterCall_skipping(ok, k) ==
    IF ok THEN [pc |-> k + 2, status |-> "running"]
    ELSE [pc |-> k, status |-> "failed"]

AfterCall(ok, k) ==
    IF ok THEN [pc |-> k + 1, status |-> "running"]
    ELSE [pc |-> k, status |-> "failed"]

Init ==
    /\ fn = ""
    /\ data = [k \in {} |-> ""]
    /\ blank = FALSE
    /\ result = NoResult
    /\ dirs \in SUBSET Dirs
    /\ unwritable \in { {} } \cup { { p } : p \in Paths }
    /\ files = {}
    /\ attempts = [p \in Paths |-> 0]
    /\ outcome = [p \in Paths |-> "none"]
    /\ pc = [d \in Drivers |-> 0]
    /\ status = [d \in Drivers |-> "idle"]

\* python generate_*.py: the script calls its driver.
Start(d) ==
    /\ status[d] = "idle"
    /\ status' = [status EXCEPT ![d] = "running"]
    /\ pc' = [pc EXCEPT ![d] = 1]
    /\ UNCHANGED << dirs, unwritable, files, attempts, outcome >>
    /\ UNCHANGED harness_vars

\* The next render call of driver d, were the output tree emptied by the
\* write.
RenderStep_truncating(d) ==
    /\ status[d] = "running"
    /\ pc[d] <= Len(Calls(d))
    /\ LET call == Calls(d)[pc[d]]
           how == Outcome(d, pc[d])
           after == AfterCall(how = "ok", pc[d])
       IN  /\ attempts' = [attempts EXCEPT ![call.path] = @ + 1]
           /\ outcome' = [outcome EXCEPT ![call.path] = how]
           /\ files' = IF how = "ok" THEN { call.path } ELSE files
           /\ pc' = [pc EXCEPT ![d] = after.pc]
           /\ status' = [status EXCEPT ![d] = after.status]
    /\ UNCHANGED << dirs, unwritable >>
    /\ UNCHANGED harness_vars

\* The next render call of driver d.
RenderStep(d) ==
    /\ status[d] = "running"
    /\ pc[d] <= Len(Calls(d))
    /\ LET call == Calls(d)[pc[d]]
           how == Outcome(d, pc[d])
           after == AfterCall(how = "ok", pc[d])
       IN  /\ attempts' = [attempts EXCEPT ![call.path] = @ + 1]
           /\ outcome' = [outcome EXCEPT ![call.path] = how]
           /\ files' = IF how = "ok" THEN files \cup { call.path } ELSE files
           /\ pc' = [pc EXCEPT ![d] = after.pc]
           /\ status' = [status EXCEPT ![d] = after.status]
    /\ UNCHANGED << dirs, unwritable >>
    /\ UNCHANGED harness_vars

\* After the last call the driver prints its message and the script ends.
PrintSuccess(d) ==
    /\ status[d] = "running"
    /\ pc[d] = Len(Calls(d)) + 1
    /\ status' = [status EXCEPT ![d] = "done"]
    /\ UNCHANGED << dirs, unwritable, files, attempts, outcome, pc >>
    /\ UNCHANGED harness_vars

Next == \E d \in Drivers : Start(d) \/ RenderStep(d) \/ PrintSuccess(d)

Spec == Init /\ [][Next]_vars


---------------------------------------------------------------------------
(* Running the scripts again over the tree they left: SpecRerun *)

\* Every path may be written.
InitRerun == Init /\ unwritable = {}

\* python generate_*.py once more, after a run that ended with the message.
Restart(d) ==
    /\ status[d] = "done"
    /\ attempts[Calls(d)[1].path] < MaxRuns
    /\ status' = [status EXCEPT ![d] = "running"]
    /\ pc' = [pc EXCEPT ![d] = 1]
    /\ UNCHANGED << dirs, unwritable, files, attempts, outcome >>
    /\ UNCHANGED harness_vars

NextRerun == Next \/ \E d \in Drivers : Restart(d)

SpecRerun == InitRerun /\ [][NextRerun]_vars

---------------------------------------------------------------------------
(* One renderer call with its write: SpecCall *)

\* The filename the renderers are called with.
Filenames == { "test-documents/sample.pdf" }

\* What the tree would hold were the file opened (created or truncated) when
\* the canvas or the document template is made, before the body runs.
Save_at_open(res, path, fs) == fs \cup { path }

\* c.save() / doc.build(story), the last statement of every renderer: the
\* one place where the file is written. It is reached only when no subscript
\* of the body has raised.
Save(res, path, fs) == IF res.ok THEN fs \cup { path } ELSE fs

\* The file of the call may be there already or not.
InitCall ==
    /\ fn = ""
    /\ data = [k \in {} |-> ""]
    /\ blank = FALSE
    /\ result = NoResult
    /\ dirs = {}
    /\ unwritable = {}
    /\ files \in SUBSET Filenames
    /\ attempts = [p \in {} |-> 0]
    /\ outcome = [p \in Filenames |-> "none"]
    /\ pc = [d \in {} |-> 0]
    /\ status = [d \in {} |-> ""]

\* A call f(filename, rec) of a renderer, from its first statement to
\* c.save() / doc.build() or to the KeyError that ends it.
CallRenderer ==
    /\ fn = ""
    /\ \E f \in Renderers, b \in BOOLEAN, p \in Filenames :
         /\ b => f = "create_claim_form"
         /\ \E v \in Variants(f) :
              LET res == Apply(f, Input(f, v), b)
              IN  /\ fn' = f
                  /\ blank' = b
                  /\ data' = Input(f, v)
                  /\ result' = res
                  /\ files' = Save(res, p, files)
                  /\ outcome' = [outcome EXCEPT ![p] = IF res.ok THEN "ok" ELSE "KeyError"]
    /\ UNCHANGED << dirs, unwritable, attempts, pc, status >>

NextCall == CallRenderer \/ Return

SpecCall == InitCall /\ [][NextCall]_vars
---------------------------------------------------------------------------
(* Properties of one renderer call, checked under SpecRender *)

\* The renderer under call was given its sample dict less the one key k.
Removed(k) ==
    /\ fn # ""
    /\ k \in DOMAIN Sample(fn)
    /\ DOMAIN data = DOMAIN Sample(fn) \ {k}
    /\ data = Remove(Sample(fn), k)

\* The call under way raised KeyError(k).
Raised(k) == ~result.ok /\ result.key = k /\ result.out = << >>

\* The call under way handed a document over.
Succeeded == result.ok /\ result.key = ""

\* Every field the body of the renderer under call refers to.
ReferencedFields ==
    IF fn = "" THEN {}
    ELSE SubscriptFields(TemplateOf(fn, blank)) \cup ListFields(TemplateOf(fn, blank))

\* C1 as stated: for every renderer and every field its template references,
\* the list-valued fields encumbrances, approvals, activities and restrictions
\* included, the call with that one field removed fails with a missing-field
\* error that names the field.
C1_EveryReferencedFieldRequired ==
    \A k \in ReferencedFields : Removed(k) => Raised(k)

\* C1 as amended: the call with one field removed raises KeyError naming the
\* field exactly when the body reads the field by subscript; with any other
\* field of the sample dict removed (a list read with .get(), or any field at
\* all of a blank claim form) the call succeeds.
C1_SubscriptFieldRequired ==
    fn # "" =>
        /\ \A k \in SubscriptFields(TemplateOf(fn, blank)) : Removed(k) => Raised(k)
        /\ \A k \in DOMAIN Sample(fn) \ SubscriptFields(TemplateOf(fn, blank)) :
               Removed(k) => Succeeded

\* C1 witness: create_property_deed called without purchase_price has raised
\* KeyError('purchase_price').
C1_Witness ==
    /\ fn = "create_property_deed"
    /\ Removed("purchase_price")
    /\ Raised("purchase_price")

\* The renderer under call has an optional list field, and that field.
HasListField == fn # "" /\ ListFields(TemplateOf(fn, blank)) # {}
ListField == CHOOSE k \in ListFields(TemplateOf(fn, blank)) : TRUE

\* Where the loop over the list stands in the body of the renderer under call.
ListAt == CHOOSE i \in 1..Len(TemplateOf(fn, blank)) : TemplateOf(fn, blank)[i].blk = "foreach"

\* The place in the output of what item i of the body emitted (an item other
\* than the loop emits one item; the loop emits all the rest).
OutIndex(i) ==
    IF HasListField /\ i > ListAt
    THEN i + Len(result.out) - Len(TemplateOf(fn, blank))
    ELSE i

\* The lines the list section of the document under call consists of.
ListLines ==
    SubSeq(result.out, ListAt, ListAt + Len(result.out) - Len(TemplateOf(fn, blank)))

\* A line made of a bullet and the entry, as the loops write it.
IsBulletLine(line, entry) ==
    /\ Len(line.text) = 2
    /\ line.text[1] \in { Txt("{bullet} "), Txt("{check} ") }
    /\ line.text[2] = Txt(entry)

\* C5 as stated: a renderer with an optional list field emits exactly one
\* placeholder line when the key is absent or the list is empty, and otherwise
\* one bulleted line per entry, in list order, and nothing else.
C5_PlaceholderOrBullets ==
    (HasListField /\ result.ok) =>
        LET entries == Get(data, ListField, << >>)
        IN  IF entries = << >>
            THEN Len(ListLines) = 1
            ELSE /\ Len(ListLines) = Len(entries)
                 /\ \A i \in 1..Len(entries) : IsBulletLine(ListLines[i], entries[i])

\* C6 as stated: with the list field an empty list the renderer emits the same
\* sequence of items as with the key removed.
C6_EmptySameAsAbsent ==
    (HasListField /\ result.ok /\ ListField \in DOMAIN data /\ Len(data[ListField]) = 0) =>
        result.out = Apply(fn, Remove(data, ListField), blank).out

\* The currency fields of the document under call: every replacement field
\* the body writes right after a "$", with the field, its format
\* specification and the piece of text it became.
CurrencyPieces ==
    IF fn = "" \/ ~result.ok THEN {}
    ELSE LET t == TemplateOf(fn, blank)
             at == { ij \in UNION { { << i, j >> : j \in 1..(Len(t[i].parts) - 1) } :
                                      i \in 1..Len(t) } :
                       /\ t[ij[1]].blk # "foreach"
                       /\ t[ij[1]].parts[ij[2]] = L("$")
                       /\ t[ij[1]].parts[ij[2] + 1].t = "fld" }
         IN  { [f |-> t[ij[1]].parts[ij[2] + 1].f,
                fmt |-> t[ij[1]].parts[ij[2] + 1].fmt,
                piece |-> result.out[OutIndex(ij[1])].text[ij[2] + 1]] : ij \in at }

IsDigits(d) == Len(d) > 0 /\ \A i \in 1..Len(d) : d[i] \in DigitChars

\* Digits in groups of three from the right, a comma between the groups.
IsGrouped(d) ==
    /\ Len(d) > 0
    /\ \A i \in 1..Len(d) :
         IF (Len(d) - i + 1) % 4 = 0 THEN d[i] = "," ELSE d[i] \in DigitChars
    /\ d[1] \in DigitChars

\* d ends in a point and exactly n digits; IntPart(d, n) is what is before.
HasDecimals(d, n) ==
    /\ Len(d) > n + 1
    /\ d[Len(d) - n] = "."
    /\ IsDigits(SubSeq(d, Len(d) - n + 1, Len(d)))
IntPart(d, n) == SubSeq(d, 1, Len(d) - n - 1)

BlankLabels ==
    { "Claim Number: ", "Date of Report: ", "Policy Number: ", "Insured Name: ",
      "Phone Number: ", "Email: ", "Date of Loss: ", "Time of Loss: ", "Location: ",
      "Description of Incident:", "Year/Make/Model: ", "License Plate: ", "VIN: ",
      "Estimated Damage: ", "Signature: ", "Date: " }

IsUnderscores(piece) ==
    piece.s = "" /\ Len(piece.d) > 0 /\ \A i \in 1..Len(piece.d) : piece.d[i] = "_"

\* Item i of out is the label followed by a run of underscores: in the same
\* item (after the dollar sign, for the damage), or in the item that follows.
IsBlankField(out, i, label) ==
    /\ Len(out[i].text) > 0
    /\ out[i].text[1] = Txt(label)
    /\ \/ Len(out[i].text) = 2 /\ IsUnderscores(out[i].text[2])
       \/ /\ Len(out[i].text) = 3
          /\ out[i].text[2] = Txt("$")
          /\ IsUnderscores(out[i].text[3])
       \/ /\ Len(out[i].text) = 1
          /\ i < Len(out)
          /\ Len(out[i + 1].text) = 1
          /\ IsUnderscores(out[i + 1].text[1])

\* C8: create_claim_form with is_blank = True succeeds whatever the record
\* holds, the empty record included, emits what it emits for the empty record
\* (it reads no key), emits each of the sixteen fields as its label followed
\* by a run of underscores, and emits no value of the record.
C8_BlankFormReadsNothing ==
    (fn = "create_claim_form" /\ blank) =>
        /\ Succeeded
        /\ result = create_claim_form([k \in {} |-> ""], TRUE)
        /\ Cardinality(BlankLabels) = 16
        /\ \A label \in BlankLabels :
               \E i \in 1..Len(result.out) : IsBlankField(result.out, i, label)
        /\ \A i \in 1..Len(result.out) : \A j \in 1..Len(result.out[i].text) :
               \A k \in DOMAIN data : result.out[i].text[j] # Txt(data[k])

\* C8 witness: the blank form has been rendered from the empty record.
C8_Witness ==
    /\ fn = "create_claim_form"
    /\ blank
    /\ DOMAIN data = {}
    /\ Succeeded
    /\ \E i \in 1..Len(result.out) : IsBlankField(result.out, i, "Claim Number: ")

\* The total rows of the tables: the renderer, the label of the row, and the
\* field and format specification the claim takes the total from (no field
\* for create_insurance_policy, whose record holds no amount at all).
TotalRows ==
    { << "create_property_valuation", "Final Value:", "final_value", "comma" >>,
      << "create_proof_of_address", "Total Amount Due", "total_due", "f2" >>,
      << "create_liability_policy", "Total Annual Premium:", "total_premium", "comma" >>,
      << "create_contract_document", "Total Contract Value", "total_payments", "comma" >>,
      << "create_financial_statement", "Total Current Assets", "total_current_assets", "comma" >>,
      << "create_financial_statement", "TOTAL ASSETS", "total_assets", "comma" >>,
      << "create_financial_statement", "Total Current Liabilities",
         "total_current_liabilities", "comma" >>,
      << "create_financial_statement", "Total Liabilities", "total_liabilities", "comma" >>,
      << "create_financial_statement", "Total Shareholders' Equity", "total_equity", "comma" >>,
      << "create_financial_statement", "TOTAL LIABILITIES & EQUITY",
         "total_liab_equity", "comma" >>,
      << "create_financial_statement", "Total Operating Expenses",
         "total_operating_expenses", "comma" >>,
      << "create_insurance_policy", "Total Annual Premium:", "", "" >> }

\* The text of the total cell of the row labelled `label` in the document
\* out: the first cell with text after the label, in the same row.
TotalCell(out, label) ==
    LET i == CHOOSE i \in 1..Len(out) : out[i].blk = "cell" /\ out[i].text = << Txt(label) >>
        j == CHOOSE j \in (i + 1)..Len(out) :
                 /\ out[j].text # << >>
                 /\ \A k \in (i + 1)..(j - 1) : out[k].text = << >>
    IN  IF out[j].blk = "cell" /\ out[j].y = out[i].y THEN out[j].text ELSE << >>

\* The amounts tried in a field printed with format specification fmt.
AmountsFor(fmt) == IF fmt \in { "f2", "f4" } THEN FloatAmounts ELSE IntAmounts

\* C10 as stated: the total cell of every total row, that of
\* create_insurance_policy included, is a field of the record, formatted, and
\* changing that field changes the cell.
C10_TotalIsOwnField ==
    \A row \in TotalRows :
        (fn = row[1] /\ result.ok) =>
            /\ \E k \in DOMAIN data :
                   IF row[3] = ""
                   THEN TotalCell(result.out, row[2])
                            \in { << Txt(data[k]) >>, << Txt("$"), Txt(data[k]) >> }
                   ELSE k = row[3] /\
                        TotalCell(result.out, row[2]) = << Txt("$"), Format(data[k], row[4]) >>
            /\ row[3] # "" =>
                   \A n \in AmountsFor(row[4]) \ { data[row[3]] } :
                       TotalCell(Apply(fn, With(data, row[3], n), blank).out, row[2])
                           # TotalCell(result.out, row[2])

\* C10 as amended: in create_property_valuation, create_proof_of_address,
\* create_liability_policy, create_contract_document and
\* create_financial_statement the total cell is "$" and the record's own total
\* field, written with "," (total_due: with ".2f"), whatever the other fields
\* hold; in create_insurance_policy it is the literal "$1,125.00" whatever the
\* record holds.
C10_TotalFromRecordOrLiteral ==
    \A row \in TotalRows :
        (fn = row[1] /\ result.ok) =>
            CASE row[4] = "comma" ->
                     TotalCell(result.out, row[2])
                         = << Txt("$"), Chars(FormatComma(data[row[3]])) >>
              [] row[4] = "f2" ->
                     TotalCell(result.out, row[2])
                         = << Txt("$"), Chars(FormatFixed(data[row[3]], 2)) >>
              [] OTHER -> TotalCell(result.out, row[2]) = << Txt("$1,125.00") >>

\* C10 witness: create_property_valuation called with a component of the
\* total changed (sales_comparison = 1234567) has written the record's
\* final_value, 492,000, in the Final Value cell.
C10_Witness ==
    /\ fn = "create_property_valuation"
    /\ result.ok
    /\ data["sales_comparison"] = 1234567
    /\ data["final_value"] = 492000
    /\ TotalCell(result.out, "Final Value:")
           = << Txt("$"), Chars(<< "4", "9", "2", ",", "0", "0", "0" >>) >>

\* Where the first table of the document out begins.
FirstTable(out) ==
    CHOOSE i \in 1..Len(out) : out[i].blk = "table" /\ \A j \in 1..(i - 1) : out[j].blk # "table"

\* Item i of out is the cell of row r and column c holding the text s alone.
IsCell(out, i, r, c, s) ==
    /\ out[i].blk = "cell"
    /\ out[i].y = r
    /\ out[i].x = c
    /\ out[i].text = << Txt(s) >>

\* C11: create_fire_safety_certificate called with certificate_number
\* "FSC-2024-3456", issue_date "2024-07-20" and expiration_date "2025-07-20"
\* emits the three strings unchanged as the value cells of the first three
\* rows of its first table, after the labels Certificate Number, Issue Date
\* and Expiration Date, and the expiration date again in the certification
\* paragraph.
C11_CertificateFieldsInPlace ==
    (/\ fn = "create_fire_safety_certificate"
     /\ result.ok
     /\ data["certificate_number"] = "FSC-2024-3456"
     /\ data["issue_date"] = "2024-07-20"
     /\ data["expiration_date"] = "2025-07-20") =>
        LET out == result.out
            t == FirstTable(out)
        IN  /\ IsCell(out, t + 1, 1, 1, "Certificate Number:")
            /\ IsCell(out, t + 2, 1, 2, "FSC-2024-3456")
            /\ IsCell(out, t + 3, 2, 1, "Issue Date:")
            /\ IsCell(out, t + 4, 2, 2, "2024-07-20")
            /\ IsCell(out, t + 5, 3, 1, "Expiration Date:")
            /\ IsCell(out, t + 6, 3, 2, "2025-07-20")
            /\ \E i \in 1..Len(out) : \E j \in 1..(Len(out[i].text) - 1) :
                   /\ out[i].blk = "Normal"
                   /\ out[i].text[j] = Txt("2025-07-20")
                   /\ out[i].text[j + 1] = Txt(" unless revoked or suspended.")

\* C11 witness: the certificate of the scenario has been rendered.
C11_Witness ==
    /\ fn = "create_fire_safety_certificate"
    /\ result.ok
    /\ data["certificate_number"] = "FSC-2024-3456"
    /\ data["issue_date"] = "2024-07-20"
    /\ data["expiration_date"] = "2025-07-20"
    /\ IsCell(result.out, FirstTable(result.out) + 2, 1, 2, "FSC-2024-3456")

\* What does not depend on the record in the output out of renderer f: for
\* each item of the body other than the loop, in order, the kind of block, its
\* place and its labels (the text of every part that is not a replacement
\* field, "" standing for the replacement fields).
Skeleton(f, b, out) ==
    LET t == TemplateOf(f, b)
        loop == { i \in 1..Len(t) : t[i].blk = "foreach" }
        at(i) == IF \E l \in loop : i > l THEN i + Len(out) - Len(t) ELSE i
    IN  [i \in (1..Len(t)) \ loop |->
            [blk |-> out[at(i)].blk,
             x |-> out[at(i)].x,
             y |-> out[at(i)].y,
             labels |-> [j \in 1..Len(out[at(i)].text) |->
                            IF j <= Len(t[i].parts) /\ t[i].parts[j].t = "fld"
                            THEN Txt("")
                            ELSE out[at(i)].text[j]]]]

\* The fewest items renderer f emits: one for each item of its body other
\* than the loop.
FixedItems(f, b) ==
    Cardinality({ i \in 1..Len(TemplateOf(f, b)) : TemplateOf(f, b)[i].blk # "foreach" })

\* C17: for every renderer the ordered sequence of block kinds, places and
\* fixed labels emitted for a valid record is that emitted for the sample
\* record, whatever the values of the fields are; only the lines of the
\* optional list (how many there are, and their entries) vary.
C17_SameSkeletonForAllRecords ==
    (fn # "" /\ result.ok) =>
        /\ Len(result.out) >= FixedItems(fn, blank)
        /\ Skeleton(fn, blank, result.out)
               = Skeleton(fn, blank, Apply(fn, Sample(fn), blank).out)

\* C17 witness: a renderer has been called with a record that differs from
\* its sample record in a field printed outside the list, here with the empty
\* string.
C17_Witness ==
    /\ fn # ""
    /\ result.ok
    /\ result.out # Apply(fn, Sample(fn), blank).out
    /\ \E k \in StringFields(TemplateOf(fn, blank)) : k \in DOMAIN data /\ data[k] = ""

\* The renderers that draw on a canvas.
CanvasRenderers ==
    { "create_vehicle_registration", "create_drivers_license", "create_building_permit",
      "create_business_registration", "create_id_card", "create_passport_sample" }

\* The pages of a canvas document: c.save() ends the last page, each
\* c.showPage() an earlier one.
Pages(out) == 1 + Cardinality({ i \in 1..Len(out) : out[i].blk = "page" })

\* The pages the body of canvas renderer f asks for: create_drivers_license
\* calls c.showPage() once (front and back of the card), the others never.
TemplatePages(f) == IF f = "create_drivers_license" THEN 2 ELSE 1

\* C19: a canvas renderer produces the number of pages its body fixes, for
\* every record: no page is started by the amount of content, not by a list
\* whose lines run below the lower edge of the canvas either.
C19_PagesFixedByTemplate ==
    (fn \in CanvasRenderers /\ result.ok) => Pages(result.out) = TemplatePages(fn)

\* C19 witness: a canvas renderer has drawn a list line below the lower edge
\* of the canvas (y < 0).
C19_Witness ==
    /\ fn \in CanvasRenderers
    /\ result.ok
    /\ \E i \in 1..Len(result.out) : result.out[i].blk = "draw" /\ result.out[i].y < 0
    /\ Pages(result.out) = TemplatePages(fn)

---------------------------------------------------------------------------
(* Properties of one renderer call with its write, checked under SpecCall *)

\* C21: a render call that fails because a key its body reads is missing
\* from the record creates no file and leaves the file at its path, if there
\* is one, as it was: the subscript raises before c.save() / doc.build(), the
\* only statement that writes.
C21_KeyErrorWritesNothing ==
    [][(fn = "" /\ fn' # "" /\ ~result'.ok) =>
          /\ result'.key # ""
          /\ result'.out = << >>
          /\ files' = files
          /\ \A p \in Filenames : outcome'[p] # "ok" \/ outcome[p] = "ok"]_vars

\* C21 witness: a call has raised KeyError and there is no file at its path.
C21_Witness ==
    /\ fn # ""
    /\ ~result.ok
    /\ result.key # ""
    /\ files = {}
    /\ \A p \in Filenames : outcome[p] = "KeyError"

---------------------------------------------------------------------------
(* Properties of the sample documents, checked under SpecRender *)

\* The renderer under call was given the record its driver passes.
OnSample == fn # "" /\ ~blank /\ data = Sample(fn) /\ result.ok

\* The y of the topmost footer line of the letter-size canvas documents.
FooterTop == 80

\* C22 as stated: for the sample records, each approval line of
\* create_building_permit and each activity line of
\* create_business_registration is drawn at a y strictly greater than 80,
\* the y of the topmost footer line.
C22_ListLinesAboveFooter ==
    (OnSample /\ fn \in { "create_building_permit", "create_business_registration" }) =>
        \A i \in 1..Len(ListLines) : ListLines[i].y > FooterTop

\* The number a run of digits and thousands separators stands for.
RECURSIVE AmountOf(_)
AmountOf(chars) ==
    IF chars = << >> THEN 0
    ELSE LET c == chars[Len(chars)]
             front == SubSeq(chars, 1, Len(chars) - 1)
         IN  IF c = "," THEN AmountOf(front)
             ELSE 10 * AmountOf(front) + (CHOOSE n \in 0..9 : Digit(n) = c)

\* Where the table approaches_data stands in the document out: its first
\* cell.
ApproachesAt(out) ==
    CHOOSE i \in 1..Len(out) : out[i].blk = "cell" /\ out[i].text = << Txt("Approach") >>

\* The amount shown in the cell of row r and column c of approaches_data
\* (four columns, the cells row by row).
ApproachesAmount(out, r, c) == AmountOf(out[ApproachesAt(out) + 4 * (r - 1) + c - 1].text[2].d)

\* The weights shown in column 3 sum to 100%.
WeightsShown(out) ==
    /\ out[ApproachesAt(out) + 6].text = << Txt("60%") >>
    /\ out[ApproachesAt(out) + 10].text = << Txt("25%") >>
    /\ out[ApproachesAt(out) + 14].text = << Txt("15%") >>
    /\ 60 + 25 + 15 = 100

\* C23 as stated: in the valuation report of the sample record the Final
\* Value of the total row equals the sum of the three Weighted Value cells
\* above it, each the truncation of its estimate times its weight (60%, 25%,
\* 15%).
C23_FinalValueIsWeightedSum ==
    (OnSample /\ fn = "create_property_valuation") =>
        LET out == result.out
        IN  /\ WeightsShown(out)
            /\ ApproachesAmount(out, 2, 4) = (data["sales_comparison"] * 60) \div 100
            /\ ApproachesAmount(out, 3, 4) = (data["cost_approach"] * 25) \div 100
            /\ ApproachesAmount(out, 4, 4) = (data["income_approach"] * 15) \div 100
            /\ ApproachesAmount(out, 5, 4)
                   = ApproachesAmount(out, 2, 4) + ApproachesAmount(out, 3, 4)
                         + ApproachesAmount(out, 4, 4)

\* What does hold of that report: the weighted values are 297,000, 121,250
\* and 73,500, which sum to 491,750, under a Final Value of 492,000.
ValuationSampleShows ==
    (OnSample /\ fn = "create_property_valuation") =>
        LET out == result.out
        IN  /\ WeightsShown(out)
            /\ ApproachesAmount(out, 2, 4) = 297000
            /\ ApproachesAmount(out, 3, 4) = 121250
            /\ ApproachesAmount(out, 4, 4) = 73500
            /\ ApproachesAmount(out, 5, 4) = 492000

\* The amounts written as literals in the Premium column of coverage_data of
\* create_insurance_policy, in cents.
PremiumCents ==
    [s \in { "$450.00", "$200.00", "$180.00", "$220.00", "$75.00", "$1,125.00" } |->
        CASE s = "$450.00" -> 45000
          [] s = "$200.00" -> 20000
          [] s = "$180.00" -> 18000
          [] s = "$220.00" -> 22000
          [] s = "$75.00" -> 7500
          [] s = "$1,125.00" -> 112500]

\* The literal in the Premium cell (column 4) of row r of coverage_data in
\* the motor policy out.
PremiumCell(out, r) ==
    LET h == CHOOSE i \in 1..Len(out) :
                 out[i].blk = "cell" /\ out[i].text = << Txt("Coverage Type") >>
    IN  out[h + 4 * (r - 1) + 3].text[1].s

\* C24: in every sample record that carries a total other than the valuation
\* record, the total is the arithmetic combination of the components: the
\* utility bill, the bank statement, the liability policy, the contract, the
\* financial statement (subtotals, totals, and assets = liabilities and
\* equity), and the literal premium rows of the motor policy; the total cell
\* shown is that sum, formatted.
C24_SampleTotalsAddUp ==
    /\ (OnSample /\ fn = "create_proof_of_address") =>
           /\ data["total_due"] = data["electric_charge"] + data["gas_charge"]
                  + data["water_charge"] + data["service_fee"] + data["taxes"]
           /\ TotalCell(result.out, "Total Amount Due")
                  = << Txt("$"),
                       Chars(FormatFixed(data["electric_charge"] + data["gas_charge"]
                           + data["water_charge"] + data["service_fee"] + data["taxes"], 2)) >>
    /\ (OnSample /\ fn = "create_bank_statement") =>
           data["ending_balance"] = data["beginning_balance"] + data["total_deposits"]
               - data["total_withdrawals"] - data["service_charges"] + data["interest_earned"]
    /\ (OnSample /\ fn = "create_liability_policy") =>
           /\ data["total_premium"] = data["bd_pd_premium"] + data["personal_injury_premium"]
                  + data["products_ops_premium"] + data["medical_premium"]
           /\ TotalCell(result.out, "Total Annual Premium:")
                  = << Txt("$"),
                       Chars(FormatComma(data["bd_pd_premium"] + data["personal_injury_premium"]
                           + data["products_ops_premium"] + data["medical_premium"])) >>
    /\ (OnSample /\ fn = "create_contract_document") =>
           /\ data["total_payments"] = data["initial_payment"] + data["progress_payment_1"]
                  + data["progress_payment_2"] + data["final_payment"]
           /\ data["total_payments"] = data["contract_value"]
    /\ (OnSample /\ fn = "create_financial_statement") =>
           /\ data["total_current_assets"] = data["cash"] + data["accounts_receivable"]
                  + data["inventory"] + data["prepaid_expenses"]
           /\ data["net_fixed_assets"] = data["ppe"] - data["accumulated_depreciation"]
           /\ data["total_assets"] = data["total_current_assets"] + data["net_fixed_assets"]
           /\ data["total_current_liabilities"] = data["accounts_payable"]
                  + data["accrued_expenses"] + data["short_term_debt"]
           /\ data["total_liabilities"]
                  = data["total_current_liabilities"] + data["long_term_debt"]
           /\ data["total_equity"] = data["common_stock"] + data["retained_earnings"]
           /\ data["total_liab_equity"] = data["total_liabilities"] + data["total_equity"]
           /\ data["total_assets"] = data["total_liab_equity"]
           /\ data["gross_profit"] = data["revenue"] - data["cogs"]
           /\ data["total_operating_expenses"] = data["salaries"] + data["rent_utilities"]
                  + data["marketing"] + data["professional_services"] + data["other_expenses"]
           /\ data["operating_income"] = data["gross_profit"] - data["total_operating_expenses"]
           /\ data["income_before_taxes"] = data["operating_income"] - data["interest_expense"]
           /\ data["net_income"] = data["income_before_taxes"] - data["tax_expense"]
    /\ (OnSample /\ fn = "create_insurance_policy") =>
           /\ \A r \in 2..7 : PremiumCell(result.out, r) \in DOMAIN PremiumCents
           /\ PremiumCents[PremiumCell(result.out, 7)]
                  = PremiumCents[PremiumCell(result.out, 2)]
                        + PremiumCents[PremiumCell(result.out, 3)]
                        + PremiumCents[PremiumCell(result.out, 4)]
                        + PremiumCents[PremiumCell(result.out, 5)]
                        + PremiumCents[PremiumCell(result.out, 6)]
           /\ TotalCell(result.out, "Total Annual Premium:") = << Txt("$1,125.00") >>

\* C24 witness: the sample financial statement has been rendered with total
\* assets and total liabilities and equity both 304,000.
C24_Witness ==
    /\ OnSample
    /\ fn = "create_financial_statement"
    /\ data["total_assets"] = 304000
    /\ data["total_liab_equity"] = 304000
    /\ TotalCell(result.out, "TOTAL ASSETS")
           = << Txt("$"), Chars(<< "3", "0", "4", ",", "0", "0", "0" >>) >>

---------------------------------------------------------------------------
(* Properties of the two modes of create_claim_form, checked under SpecRender *)

\* The fields the filled mode of create_claim_form reads.
ClaimFields == SubscriptFields(create_claim_form_template(FALSE))

\* The pieces of the document out that are runs of underscores, as item and
\* place in the item.
UnderscorePieces(out) ==
    UNION { { << i, j >> : j \in { k \in 1..Len(out[i].text) : IsUnderscores(out[i].text[k]) } } :
            i \in 1..Len(out) }

\* The document out shows the value v of a field.
Shows(out, v) == \E i \in 1..Len(out) : \E j \in 1..Len(out[i].text) : out[i].text[j] = Txt(v)

\* C26: in one call of create_claim_form the five mode-dependent parts take
\* the same branch. In the filled mode (is_blank false, the default) the 16
\* fields of the record are all required, each is shown, and no run of
\* underscores is emitted; in the blank mode the call succeeds, emits the 18
\* runs of underscores of the five parts and shows no value of the record.
C26_OneModePerCall ==
    fn = "create_claim_form" =>
        /\ Cardinality(ClaimFields) = 16
        /\ ~blank =>
               /\ result.ok <=> ClaimFields \subseteq DOMAIN data
               /\ result.ok =>
                      /\ UnderscorePieces(result.out) = {}
                      /\ \A k \in ClaimFields : Shows(result.out, data[k])
        /\ blank =>
               /\ result.ok
               /\ Cardinality(UnderscorePieces(result.out)) = 18
               /\ \A k \in DOMAIN data : ~Shows(result.out, data[k])
               /\ \A label \in BlankLabels :
                      \E i \in 1..Len(result.out) : IsBlankField(result.out, i, label)

\* C26 witness: the blank form has been rendered from a complete record, and
\* no value of the record is in it.
C26_Witness ==
    /\ fn = "create_claim_form"
    /\ blank
    /\ result.ok
    /\ ClaimFields \subseteq DOMAIN data
    /\ Cardinality(UnderscorePieces(result.out)) = 18

\* The claim form of the record under call in the filled and in the blank
\* mode; the one of the call under way is result.out.
FilledForm == IF blank THEN Apply(fn, data, FALSE).out ELSE result.out
BlankForm == IF blank THEN result.out ELSE Apply(fn, data, TRUE).out

\* create_claim_form is under call with a complete record.
CompleteClaim == fn = "create_claim_form" /\ ClaimFields \subseteq DOMAIN data /\ result.ok

\* C27 as stated: for a complete record the blank and the filled form have
\* the same items in the same order (so the same headings, the same labels
\* and the same number of lines per section), and an item differs only in
\* the part after its label.
C27_SameLabelsBothModes ==
    CompleteClaim =>
        /\ Len(BlankForm) = Len(FilledForm)
        /\ \A i \in 1..Len(FilledForm) :
               /\ i <= Len(BlankForm)
               /\ BlankForm[i].blk = FilledForm[i].blk
               /\ Len(BlankForm[i].text) = Len(FilledForm[i].text)
               /\ Len(FilledForm[i].text) > 0 => BlankForm[i].text[1] = FilledForm[i].text[1]

\* Item y of the blank form is item x of the filled form with its value, if
\* it has one, replaced by a run of underscores.
SameLine(x, y) ==
    /\ x.blk = y.blk
    /\ x.y = y.y
    /\ Len(x.text) = Len(y.text)
    /\ \A j \in 1..(Len(x.text) - 1) : x.text[j] = y.text[j]
    /\ Len(x.text) = 1 => x.text = y.text
    /\ Len(x.text) > 1 =>
           /\ IsUnderscores(y.text[Len(y.text)])
           /\ ~IsUnderscores(x.text[Len(x.text)])

\* Where the description line stands in the filled form.
DescriptionAt == CHOOSE i \in 1..Len(FilledForm) :
                     Len(FilledForm[i].text) > 0 /\ FilledForm[i].text[1] = Txt("Description: ")

\* C27 as amended: for a complete record the blank form is the filled form,
\* item by item in the same order with the same headings and labels and each
\* value replaced by underscores, except for the description: where the
\* filled form has the one line "Description: " and the value, the blank form
\* has the line "Description of Incident:" and three lines of 64 underscores,
\* so the incident section has 4 lines in the filled form and 7 in the blank
\* one.
C27_SameFormButDescription ==
    CompleteClaim =>
        LET d == DescriptionAt
        IN  /\ Len(BlankForm) = Len(FilledForm) + 3
            /\ \A i \in 1..(d - 1) : SameLine(FilledForm[i], BlankForm[i])
            /\ \A i \in (d + 1)..Len(FilledForm) : SameLine(FilledForm[i], BlankForm[i + 3])
            /\ FilledForm[d].text = << Txt("Description: "), Txt(data["description"]) >>
            /\ BlankForm[d].text = << Txt("Description of Incident:") >>
            /\ \A i \in (d + 1)..(d + 3) :
                   /\ BlankForm[i].blk = FilledForm[d].blk
                   /\ BlankForm[i].text = << Chars([k \in 1..64 |-> "_"]) >>

\* C27 witness: the blank form has been rendered from the complete sample
\* record, with the description label on a line of its own.
C27_Witness ==
    /\ CompleteClaim
    /\ blank
    /\ data = Sample(fn)
    /\ BlankForm[DescriptionAt].text = << Txt("Description of Incident:") >>
    /\ Len(result.out) = Len(FilledForm) + 3

---------------------------------------------------------------------------
(* The disclaimer, checked under SpecRender *)

\* The lines that say the document is a sample.
SampleLines ==
    { << Txt("This is a sample document for testing purposes only. All information is fictional.") >>,
      << Txt("This is a sample document for testing purposes only") >>,
      << Txt("SAMPLE DOCUMENT - PERSONAL INFO REDACTED FOR PRIVACY") >> }

\* The second line of the disclaimer of the letter-size canvas documents.
FictionalLine == << Txt("All information contained herein is fictional") >>

\* The last item of out that has text.
LastText(out) ==
    CHOOSE i \in 1..Len(out) :
        out[i].text # << >> /\ \A j \in (i + 1)..Len(out) : out[j].text = << >>

\* C28 as stated: every renderer, for every record on which it succeeds,
\* emits a line that says the document is a sample as the last text item
\* (for create_drivers_license on the back page, after the page break).
C28_SampleLineIsLast ==
    (fn # "" /\ result.ok) =>
        LET out == result.out
            last == LastText(out)
        IN  /\ \E i \in 1..Len(out) : out[i].text # << >>
            /\ out[last].text \in SampleLines
            /\ fn = "create_drivers_license" =>
                   \E p \in 1..(last - 1) : out[p].blk = "page"

\* C28 as amended: every renderer, for every record on which it succeeds, ends its
\* document with the disclaimer: the last text item is the line that says
\* the document is a sample (for create_drivers_license it is on the back
\* page, after the page break), or, in create_vehicle_registration,
\* create_building_permit and create_business_registration, whose disclaimer
\* has two lines, that line is next to last and the last is "All information
\* contained herein is fictional".
C28_DisclaimerLast ==
    (fn # "" /\ result.ok) =>
        LET out == result.out
            last == LastText(out)
        IN  /\ \E i \in 1..Len(out) : out[i].text # << >>
            /\ IF fn \in { "create_vehicle_registration", "create_building_permit",
                           "create_business_registration" }
               THEN /\ out[last].text = FictionalLine
                    /\ last > 1
                    /\ out[last - 1].text \in SampleLines
               ELSE out[last].text \in SampleLines
            /\ fn = "create_drivers_license" =>
                   \E p \in 1..(last - 1) : out[p].blk = "page"

\* C28 witness: a building permit whose list runs over the footer, and a
\* document rendered from a record with an empty field, still end with the
\* disclaimer.
C28_Witness ==
    /\ fn = "create_building_permit"
    /\ result.ok
    /\ "approvals" \in DOMAIN data
    /\ Len(data["approvals"]) = LongListLen
    /\ result.out[LastText(result.out)].text = FictionalLine
    /\ result.out[LastText(result.out) - 1].text \in SampleLines

---------------------------------------------------------------------------
(* Properties of the driver runs, checked under Spec *)

\* Driver d has ended, by its last statement or by an exception.
Ended(d) == status[d] \in { "done", "failed" }

\* C2 as stated: when the render call for document k of a driver fails, the
\* call is not made again and the calls for all later documents k+1..n are
\* still made.
C2_LaterCallsStillMade ==
    \A d \in Drivers : Ended(d) =>
        \A k \in 1..Len(Calls(d)) :
            outcome[Calls(d)[k].path] \in { "KeyError", "IOError" } =>
                /\ attempts[Calls(d)[k].path] = 1
                /\ \A j \in (k + 1)..Len(Calls(d)) : attempts[Calls(d)[j].path] = 1

\* C3 as stated: the four drivers run where no test-documents tree exists end
\* with exactly the 24 output files, 8, 5, 6 and 5 by category.
C3_FreshRunWritesAll ==
    (dirs = {} /\ \A d \in Drivers : Ended(d)) =>
        /\ files = Paths
        /\ Cardinality(files) = 24
        /\ \A d \in Drivers :
               Cardinality({ p \in files : \E i \in 1..Len(Calls(d)) : Calls(d)[i].path = p })
                   = Len(Calls(d))

\* C4 as stated: no render call is issued against a path whose category
\* directory is missing.
C4_DirectoryExistsBeforeWrite ==
    \A d \in Drivers : \A i \in 1..Len(Calls(d)) :
        attempts[Calls(d)[i].path] > 0 => Calls(d)[i].dir \in dirs


\* Driver d is at a render call (its next step is that call).
AtCall(d) == status[d] = "running" /\ pc[d] <= Len(Calls(d))

PathsOf(d) == { Calls(d)[i].path : i \in 1..Len(Calls(d)) }

\* What call i of driver d does when the driver runs alone, from the
\* directories and the permissions only.
SequentialOutcome(d, i) ==
    IF ~Prepares[d][i] THEN "KeyError"
    ELSE IF Calls(d)[i].dir \in dirs /\ Calls(d)[i].path \notin unwritable THEN "ok"
    ELSE "IOError"

\* The files driver d leaves when it runs alone: those of its calls up to
\* the first one that fails.
SequentialFiles(d) ==
    { Calls(d)[i].path : i \in { k \in 1..Len(Calls(d)) :
                                   \A j \in 1..k : SequentialOutcome(d, j) = "ok" } }

Writers(p) ==
    UNION { { << d, i >> : i \in { k \in 1..Len(Calls(d)) : Calls(d)[k].path = p } } :
            d \in Drivers }

\* The call statements name 24 paths, each in one statement only.
OnePathPerCall ==
    /\ Cardinality(Paths) = 24
    /\ \A p \in Paths : Cardinality(Writers(p)) = 1

\* C14: the output paths of the four drivers are pairwise distinct, within a
\* driver and across drivers (24 calls, 24 paths, one call per path), so in a
\* run no path is written more than once and no render call is made where
\* the file at its path is already there.
C14_PathsPairwiseDistinct ==
    /\ OnePathPerCall
    /\ \A p \in Paths : attempts[p] <= 1
    /\ \A d \in Drivers : AtCall(d) => Calls(d)[pc[d]].path \notin files

\* C14 witness: the full run has written all 24 files, each one once.
C14_Witness ==
    /\ \A d \in Drivers : status[d] = "done"
    /\ files = Paths
    /\ \A p \in Paths : attempts[p] = 1

\* Calls i and j of driver d, both made, are calls to the same renderer.
CalledTwice(d, i, j) ==
    /\ i < j
    /\ Calls(d)[i].fn = Calls(d)[j].fn
    /\ attempts[Calls(d)[i].path] > 0
    /\ attempts[Calls(d)[j].path] > 0

CallOrder ==
    [d \in Drivers |->
        CASE d = "generate_motor_insurance_docs" ->
                 << "create_vehicle_registration", "create_vehicle_registration",
                    "create_drivers_license", "create_drivers_license",
                    "create_vehicle_inspection_report", "create_insurance_policy",
                    "create_claim_form", "create_claim_form" >>
          [] d = "generate_fire_insurance_docs" ->
                 << "create_property_deed", "create_building_permit",
                    "create_fire_safety_certificate", "create_property_valuation",
                    "create_construction_specifications" >>
          [] d = "generate_general_forms_docs" ->
                 << "create_id_card", "create_passport_sample", "create_proof_of_address",
                    "create_bank_statement", "create_employment_letter",
                    "create_medical_certificate" >>
          [] d = "generate_liability_insurance_docs" ->
                 << "create_business_registration", "create_financial_statement",
                    "create_liability_policy", "create_contract_document",
                    "create_risk_assessment" >>]

\* No renderer is named twice in the order of a driver other than the motor
\* driver.
NamedOnce ==
    \A d \in Drivers \ { "generate_motor_insurance_docs" } :
        \A i, j \in DOMAIN CallOrder[d] : CallOrder[d][i] = CallOrder[d][j] => i = j

Raises(d, i) == outcome[Calls(d)[i].path] \in { "KeyError", "IOError" }

\* C16: a driver's script has printed its success message only when every
\* render call of the driver has been made and has returned without error;
\* once a render call has raised, the script has ended with the unhandled
\* exception and the message is not printed then or later.
C16_MessageOnlyAfterAllCalls ==
    \A d \in Drivers :
        /\ status[d] = "done" =>
               \A i \in 1..Len(Calls(d)) :
                   /\ attempts[Calls(d)[i].path] = 1
                   /\ outcome[Calls(d)[i].path] = "ok"
                   /\ Calls(d)[i].path \in files
        /\ (\E i \in 1..Len(Calls(d)) : Raises(d, i)) =>
               /\ status[d] = "failed"
               /\ Raises(d, pc[d])

\* C16 witness: one script has printed its message after all its calls, and
\* another one has ended at a call that raised.
C16_Witness ==
    \E d, e \in Drivers :
        /\ status[d] = "done"
        /\ PathsOf(d) \subseteq files
        /\ status[e] = "failed"
        /\ Raises(e, pc[e])
        /\ pc[e] > 1

\* C20: within a run of a driver the render calls are made one after another
\* in the order written: at every moment the files the driver has written
\* are those of the calls before the one it is at, a prefix of its call
\* sequence, so the file of call k is written before call k + 1 begins.
C20_WrittenFilesArePrefix ==
    \A d \in Drivers :
        /\ \A i \in 1..Len(Calls(d)) : Calls(d)[i].path \in files <=> i < pc[d]
        /\ \A i \in 1..Len(Calls(d)) :
               Calls(d)[i].path \in files =>
                   \A j \in 1..(i - 1) : Calls(d)[j].path \in files
        /\ pc[d] <= Len(Calls(d)) + 1

\* C20 witness: a driver is at its third call with the files of its first
\* two calls written and no other file of its own.
C20_Witness ==
    \E d \in Drivers :
        /\ AtCall(d)
        /\ pc[d] = 3
        /\ files \cap PathsOf(d) = { Calls(d)[1].path, Calls(d)[2].path }

---------------------------------------------------------------------------
(* Properties of repeated runs, checked under SpecRerun *)

\* C18: in a run of a driver over the outputs of an earlier successful run
\* of it, every render call finds its file there, succeeds, and leaves the
\* output tree with the set of files it had: the target is overwritten and
\* no file is added, renamed or removed.
C18_RerunOverwritesInPlace ==
    [][\A d \in Drivers :
          (/\ AtCall(d)
           /\ attempts[Calls(d)[pc[d]].path] >= 1
           /\ attempts'[Calls(d)[pc[d]].path] = attempts[Calls(d)[pc[d]].path] + 1) =>
              /\ Calls(d)[pc[d]].path \in files
              /\ outcome'[Calls(d)[pc[d]].path] = "ok"
              /\ files' = files
              /\ files' \subseteq Paths
              /\ status'[d] = "running"
              /\ pc'[d] = pc[d] + 1]_vars

\* C18 witness: a driver has ended its second run with the message, every
\* one of its paths written twice and its files those of the first run.
C18_Witness ==
    \E d \in Drivers :
        /\ status[d] = "done"
        /\ \A p \in PathsOf(d) : attempts[p] = 2
        /\ files \cap PathsOf(d) = PathsOf(d)

---------------------------------------------------------------------------
(* Properties of the records the drivers pass, checked under Spec *)

\* Every record a driver passes holds every key the body of the renderer it
\* is passed to reads by subscript, and the one empty record is the one
\* passed to create_claim_form with is_blank = True.
RecordsComplete ==
    \A d \in Drivers : \A i \in 1..Len(Calls(d)) :
        /\ SubscriptFields(TemplateOf(Calls(d)[i].fn, Calls(d)[i].blank))
               \subseteq DOMAIN Calls(d)[i].rec
        /\ Prepares[d][i]
        /\ DOMAIN Calls(d)[i].rec = {} <=>
               (Calls(d)[i].fn = "create_claim_form" /\ Calls(d)[i].blank)

\* C25: for every render call of the four drivers the literal record holds
\* every key the called renderer reads, so no call of a run ends with a
\* missing-key error; the only empty record is the one passed to
\* create_claim_form together with is_blank = True.
C25_NoMissingKeyInRun ==
    /\ RecordsComplete
    /\ \A p \in Paths : outcome[p] # "KeyError"
    /\ \A d \in Drivers : status[d] = "failed" => outcome[Calls(d)[pc[d]].path] = "IOError"

\* C25 witness: the full run has ended with every call returned, the blank
\* claim form, called with the empty record, included.
C25_Witness ==
    /\ \A d \in Drivers : status[d] = "done"
    /\ \A p \in Paths : outcome[p] = "ok"
    /\ DOMAIN Calls("generate_motor_insurance_docs")[8].rec = {}
    /\ outcome[Calls("generate_motor_insurance_docs")[8].path] = "ok"
=============================================================================
